---- MODULE Spec2Model ----
(***************************************************************************)
(* The research workflow of backend/app/workflows/research_workflow.py:    *)
(* the four @step handlers (orchestrate_query, retrieve_evidence,          *)
(* analyze_and_synthesize, handle_human_review), the three agents they     *)
(* call, the hybrid search of db/qdrant_client.py and the guardrails       *)
(* validator of services/guardrails_service.py (Spec); the query engine    *)
(* behind POST /query, services/query_engine.py (EngineSpec); and the      *)
(* library functions of services/intent_classifier.py, the RRF score, the  *)
(* citation extraction and the validator applied to arguments of their     *)
(* own (LibrarySpec); the session routes of api/routes/sessions.py         *)
(* (SessionSpec); and the upload routes of api/routes/upload.py            *)
(* (UploadSpec).                                                           *)
(*                                                                         *)
(* Scores and confidences are Python floats in the source.  Here they are  *)
(* fixed-point integers: the float x is the integer x * ScoreScale.  An    *)
(* average is kept as the pair (sum, count) and compared by cross          *)
(* multiplication, so no rounding enters a comparison with a threshold.    *)
(***************************************************************************)
EXTENDS Integers, Sequences, FiniteSets, TLC

VARIABLES
    settings,   \* Settings: enable_hybrid_search, enable_multimodal
    queue,      \* events emitted by a step and not yet consumed
    handled,    \* names of the steps that ran, in order
    emitted,    \* every event a step returned: [by |-> step, ev |-> event]
    gate,       \* what _is_evidence_sufficient was called with, and its verdict
    synth,      \* what the synthesizer built its prompt and citations from
    faults,     \* the external calls that failed: [step |-> step, call |-> call]
    failed,     \* the exception that ended the run, if any
    result,     \* the result dict of the workflow's StopEvent
    engine,     \* IntelligentQueryEngine.engine: the retriever settings it was built with
    served,     \* the requests query() answered, in order, each with what it returned
    applied,    \* the library function applied last, with its arguments
    returned,   \* what that function returned
    sessions,   \* the sessions collection: which session ids have a document
    chat_store, \* MongoChatStore: the roles of the messages stored under each session id
    requests,   \* the session_query and delete_session requests, each with its position
    processing_status,  \* upload.py's processing_status dict
    status_log, \* every value written to processing_status, per filename, in order
    tasks,      \* the process_pdf background tasks, each with its position
    answers     \* what upload_pdf and get_processing_status answered, in order

workflowVars == <<settings, queue, handled, emitted, gate, synth, faults, failed, result>>

engineVars == <<engine, served>>

callVars == <<applied, returned>>

sessionVars == <<sessions, chat_store, requests>>

uploadVars == <<processing_status, status_log, tasks, answers>>

vars == <<workflowVars, engineVars, callVars, sessionVars, uploadVars>>

-----------------------------------------------------------------------------
(* Bounds of the model *)

\* number of points of the text collection
NumPoints == 4
\* number of points of the image collection
NumImages == 1

-----------------------------------------------------------------------------
(* Values *)

ScoreScale == 1000 * 1000

Fixed(n, d) == (n * ScoreScale) \div d

None == [type |-> "None"]

\* an exception leaving `step`, raised by the external call `call`
Raise(step, call) == [type |-> "Exception", step |-> step, call |-> call]

Min(a, b) == IF a < b THEN a ELSE b

Max(a, b) == IF a > b THEN a ELSE b

Range(s) == {s[i] : i \in 1..Len(s)}

RECURSIVE SumSeq(_)
SumSeq(s) == IF s = <<>> THEN 0 ELSE s[1] + SumSeq(Tail(s))

\* s[:n]
Take(s, n) == SubSeq(s, 1, Min(n, Len(s)))

\* the sequences of pairwise distinct elements of S, of length at most n
DistinctSeqs(S, n) ==
    {s \in UNION {[1..m -> S] : m \in 0..Min(n, Cardinality(S))} :
        \A i, j \in 1..Len(s) : i # j => s[i] # s[j]}

\* position of x in the sequence s (x occurs in s)
IndexOf(s, x) == CHOOSE i \in 1..Len(s) : s[i] = x

\* text is a string, read character by character as Python does
LowerChar(c) ==
    CASE c = "A" -> "a" [] c = "B" -> "b" [] c = "C" -> "c" [] c = "D" -> "d"
      [] c = "E" -> "e" [] c = "F" -> "f" [] c = "G" -> "g" [] c = "H" -> "h"
      [] c = "I" -> "i" [] c = "J" -> "j" [] c = "K" -> "k" [] c = "L" -> "l"
      [] c = "M" -> "m" [] c = "N" -> "n" [] c = "O" -> "o" [] c = "P" -> "p"
      [] c = "Q" -> "q" [] c = "R" -> "r" [] c = "S" -> "s" [] c = "T" -> "t"
      [] c = "U" -> "u" [] c = "V" -> "v" [] c = "W" -> "w" [] c = "X" -> "x"
      [] c = "Y" -> "y" [] c = "Z" -> "z"
      [] OTHER -> c

\* str.lower()
RECURSIVE str_lower(_)
str_lower(text) ==
    IF Len(text) = 0 THEN ""
    ELSE LowerChar(SubSeq(text, 1, 1)) \o str_lower(SubSeq(text, 2, Len(text)))

\* keyword in text
Contains(keyword, text) ==
    \E i \in 1..(Len(text) - Len(keyword) + 1) :
        SubSeq(text, i, i + Len(keyword) - 1) = keyword

-----------------------------------------------------------------------------
(* Settings (config.py) *)

rrf_k == 60

dense_weight == Fixed(5, 10)

sparse_weight == Fixed(5, 10)

similarity_top_k == 5

-----------------------------------------------------------------------------
(* The text collection and the image collection held by Qdrant.  Each point *)
(* carries the payload written at ingestion.                                *)

CorpusTable == <<
    [id |-> 1, paper_id |-> "a", paper_title |-> "Paper A", section_title |-> "Methods",
     page_start |-> 1, page_end |-> 2, text |-> [src |-> 1, len |-> 800]],
    [id |-> 2, paper_id |-> "a", paper_title |-> "Paper A", section_title |-> "Results",
     page_start |-> 1, page_end |-> 1, text |-> [src |-> 2, len |-> 300]],
    [id |-> 3, paper_id |-> "b", paper_title |-> "Paper B", section_title |-> "Limitations",
     page_start |-> 3, page_end |-> 4, text |-> [src |-> 3, len |-> 800]],
    [id |-> 4, paper_id |-> "a", paper_title |-> "Paper A", section_title |-> "Conclusion",
     page_start |-> 7, page_end |-> 7, text |-> [src |-> 4, len |-> 300]],
    [id |-> 5, paper_id |-> "b", paper_title |-> "Paper B", section_title |-> "Results",
     page_start |-> 2, page_end |-> 3, text |-> [src |-> 5, len |-> 800]],
    [id |-> 6, paper_id |-> "b", paper_title |-> "Paper B", section_title |-> "Unknown",
     page_start |-> 9, page_end |-> 9, text |-> [src |-> 6, len |-> 300]] >>

Corpus == {CorpusTable[i] : i \in 1..Min(NumPoints, Len(CorpusTable))}

PaperTitles == {p.paper_title : p \in Corpus}

ImageTable == <<
    [image_id |-> "img1", paper_id |-> "a", paper_title |-> "Paper A", page_number |-> 2,
     caption |-> "Figure 1", image_type |-> "figure"],
    [image_id |-> "img2", paper_id |-> "b", paper_title |-> "Paper B", page_number |-> 3,
     caption |-> None, image_type |-> "figure"] >>

ImageCorpus == {ImageTable[i] : i \in 1..Min(NumImages, Len(ImageTable))}

\* similarity scores the index may report for a dense text query
DenseScores == {Fixed(3, 10), Fixed(5, 10), Fixed(9, 10)}

\* similarity scores the index may report for an image query
ImageScores == {Fixed(1, 10), Fixed(6, 10)}

-----------------------------------------------------------------------------
(* Questions: a question is a sequence of words; `kw in question.lower()`   *)
(* is substring search, so a keyword is found inside a longer word too.     *)

Questions == {
    <<"What", "are", "the", "limitations">>,
    <<"Compare", "all", "methods">>,
    <<"small", "summary">> }

Lower(w) ==
    CASE w = "What" -> "what"
      [] w = "Compare" -> "compare"
      [] OTHER -> w

\* the keywords of the two keyword lists that occur as substrings of a word
KeywordsInside(w) ==
    CASE w = "compare" -> {"compare"}
      [] w = "all" -> {"all"}
      [] w = "small" -> {"small", "all"}
      [] OTHER -> {}

KeywordIn(kw, question) ==
    \E i \in 1..Len(question) : kw \in KeywordsInside(Lower(question[i]))

-----------------------------------------------------------------------------
(* Agent 1: QueryOrchestratorAgent *)

\* what the completer may answer to the classification prompt: the set of the
\* three tested substrings that occur in response.strip().lower()
LLMClassifications == SUBSET {"comparison", "gap", "limitation"}

classify_intent(response) ==
    IF "comparison" \in response THEN "comparison"
    ELSE IF "gap" \in response \/ "limitation" \in response THEN "research_gaps"
    ELSE "summary"

determine_sections(intent) ==
    CASE intent = "summary" -> <<"Abstract", "Introduction", "Methods", "Results">>
      [] intent = "comparison" -> <<"Results", "Methods", "Experiments">>
      [] intent = "research_gaps" -> <<"Discussion", "Conclusion", "Limitations", "Future Work">>
      [] OTHER -> <<"Abstract", "Introduction">>

\* mutant: research_gaps requests accept a confidence of 0.3
get_confidence_threshold_low(intent) ==
    CASE intent = "summary" -> Fixed(5, 10)
      [] intent = "comparison" -> Fixed(5, 10)
      [] intent = "research_gaps" -> Fixed(3, 10)
      [] OTHER -> Fixed(5, 10)

get_confidence_threshold(intent) ==
    CASE intent = "summary" -> Fixed(5, 10)
      [] intent = "comparison" -> Fixed(5, 10)
      [] intent = "research_gaps" -> Fixed(4, 10)
      [] OTHER -> Fixed(5, 10)

predict_human_review_needed(question) ==
    \E kw \in {"compare", "all", "every", "comprehensive"} : KeywordIn(kw, question)

orchestrator_process(event, response) ==
    LET intent_type == classify_intent(response) IN
    [type |-> "RetrievalEvent",
     intent_type |-> intent_type,
     target_sections |-> determine_sections(intent_type),
     confidence_threshold |-> get_confidence_threshold(intent_type),
     human_review_hint |-> predict_human_review_needed(event.question),
     similarity_top_k |-> similarity_top_k,
     original_question |-> event.question]

-----------------------------------------------------------------------------
(* QdrantService (db/qdrant_client.py) and the index behind it *)

\* the section filter search_with_filter builds; None when the search is unfiltered
section_filter(allowed_sections) ==
    IF allowed_sections = <<>>
    THEN None
    ELSE LET filtered_sections == SelectSeq(allowed_sections, LAMBDA s : s # "Unknown")
         IN  IF filtered_sections = <<>>
             THEN None
             ELSE [type |-> "Filter", key |-> "section_title", any |-> filtered_sections]

\* the index's side of a filtered query: the points the filter admits
Admits(query_filter, point) ==
    \/ query_filter.type = "None"
    \/ point.section_title \in Range(query_filter.any)

NonIncreasing(S, n) ==
    {sc \in [1..n -> S] : \A i \in 1..n : i < n => sc[i] >= sc[i + 1]}

\* what client.query_points may return: at most `limit` distinct points the
\* filter admits, best first, each with the score the index computed
QueryPoints(query_filter, limit, Scores) ==
    UNION {
        {[i \in 1..Len(ps) |-> [id |-> ps[i].id, score |-> sc[i], payload |-> ps[i]]] :
            sc \in NonIncreasing(Scores, Len(ps))} :
        ps \in DistinctSeqs({p \in Corpus : Admits(query_filter, p)}, limit)}

Ids(results) == {results[i].id : i \in 1..Len(results)}

RankIn(results, id) == CHOOSE i \in 1..Len(results) : results[i].id = id

\* mutant: the rank is subtracted from k, so a better rank scores lower
rrf_score_rank_subtracted(dense_results, sparse_results, id) ==
    (IF id \in Ids(dense_results)
     THEN dense_weight \div (rrf_k - RankIn(dense_results, id)) ELSE 0)
    + (IF id \in Ids(sparse_results)
       THEN sparse_weight \div (rrf_k - RankIn(sparse_results, id)) ELSE 0)

\* mutant: the constant k is left out of the denominators
rrf_score_without_k(dense_results, sparse_results, id) ==
    (IF id \in Ids(dense_results)
     THEN dense_weight \div RankIn(dense_results, id) ELSE 0)
    + (IF id \in Ids(sparse_results)
       THEN sparse_weight \div RankIn(sparse_results, id) ELSE 0)

\* one RRF score: the weighted reciprocal ranks of the lists the point is in
rrf_score(dense_results, sparse_results, id) ==
    (IF id \in Ids(dense_results)
     THEN dense_weight \div (rrf_k + RankIn(dense_results, id)) ELSE 0)
    + (IF id \in Ids(sparse_results)
       THEN sparse_weight \div (rrf_k + RankIn(sparse_results, id)) ELSE 0)

\* sorted(..., reverse=True) is stable: x goes behind every element whose key
\* is not smaller
InsertDesc(sorted, x, key) ==
    LET n == Cardinality({i \in 1..Len(sorted) : key[sorted[i]] >= key[x]})
    IN  SubSeq(sorted, 1, n) \o <<x>> \o SubSeq(sorted, n + 1, Len(sorted))

RECURSIVE SortDesc(_, _)
SortDesc(s, key) ==
    IF s = <<>> THEN <<>>
    ELSE InsertDesc(SortDesc(SubSeq(s, 1, Len(s) - 1), key), s[Len(s)], key)

\* mutant: the ids are not sorted by score before the cut
rrf_fusion_unsorted(dense_results, sparse_results, limit, order) ==
    LET all_ids    == Ids(dense_results) \cup Ids(sparse_results)
        rrf_scores == [id \in all_ids |-> rrf_score(dense_results, sparse_results, id)]
        sorted_ids == Take(order, limit)
        both       == dense_results \o sparse_results
        point_map  == [id \in all_ids |->
                         both[CHOOSE i \in 1..Len(both) :
                                /\ both[i].id = id
                                /\ \A j \in (i + 1)..Len(both) : both[j].id # id]]
    IN  [i \in 1..Len(sorted_ids) |->
            [point_map[sorted_ids[i]] EXCEPT !.score = rrf_scores[sorted_ids[i]]]]

\* `order` is the iteration order of the Python set all_ids
rrf_fusion(dense_results, sparse_results, limit, order) ==
    LET all_ids    == Ids(dense_results) \cup Ids(sparse_results)
        rrf_scores == [id \in all_ids |-> rrf_score(dense_results, sparse_results, id)]
        sorted_ids == Take(SortDesc(order, rrf_scores), limit)
        both       == dense_results \o sparse_results
        point_map  == [id \in all_ids |->
                         both[CHOOSE i \in 1..Len(both) :
                                /\ both[i].id = id
                                /\ \A j \in (i + 1)..Len(both) : both[j].id # id]]
    IN  [i \in 1..Len(sorted_ids) |->
            [point_map[sorted_ids[i]] EXCEPT !.score = rrf_scores[sorted_ids[i]]]]

SearchResult(point) ==
    [text |-> point.payload.text,
     score |-> point.score,
     metadata |-> [paper_id |-> point.payload.paper_id,
                   paper_title |-> point.payload.paper_title,
                   section_title |-> point.payload.section_title,
                   page_start |-> point.payload.page_start,
                   page_end |-> point.payload.page_end]]

\* ext: what the external services did during this call
search_with_filter(limit, allowed_sections, hybrid, ext) ==
    IF ext.text_fail = "dense_query" \/ (hybrid /\ ext.text_fail = "sparse_query")
    THEN Raise("retrieve_evidence", ext.text_fail)
    ELSE LET results == IF hybrid
                        THEN rrf_fusion(ext.dense_results, ext.sparse_results, limit, ext.order)
                        ELSE ext.dense_results
         IN  [type |-> "ok", value |-> [i \in 1..Len(results) |-> SearchResult(results[i])]]

min_score == Fixed(15, 100)

image_limit == 3

\* what search_images may return: at most `limit` images scoring min_score or more
SearchImages(limit, score_threshold) ==
    UNION {
        {[i \in 1..Len(ps) |->
            [image_id |-> ps[i].image_id, paper_title |-> ps[i].paper_title,
             page_number |-> ps[i].page_number, caption |-> ps[i].caption,
             score |-> sc[i], metadata |-> ps[i]]] :
            sc \in NonIncreasing({s \in ImageScores : s >= score_threshold}, Len(ps))} :
        ps \in DistinctSeqs(ImageCorpus, limit)}

-----------------------------------------------------------------------------
(* Agent 2: EvidenceRetrievalAgent *)

EvidenceChunk(r) ==
    [text |-> r.text, paper_title |-> r.metadata.paper_title,
     section_title |-> r.metadata.section_title, page_start |-> r.metadata.page_start,
     page_end |-> r.metadata.page_end, score |-> r.score]

ImageEvidence(img) ==
    [image_id |-> img.image_id, paper_title |-> img.paper_title,
     page_number |-> img.page_number, caption |-> img.caption,
     image_type |-> img.metadata.image_type, score |-> img.score]

\* mutant: like the image search, the text search runs inside try/except and a
\* failure leaves chunks = []
retrieve_text_swallowed(event, ext) ==
    LET hybrid == settings.enable_hybrid_search IN
    IF ext.text_fail # "none"
    THEN [type |-> "ok", value |-> <<>>]
    ELSE LET text_results == search_with_filter(event.similarity_top_k,
                                                event.target_sections, hybrid, ext)
         IN  [type |-> "ok",
              value |-> [i \in 1..Len(text_results.value) |->
                            EvidenceChunk(text_results.value[i])]]

\* text retrieval: the embeddings, then the search; any failure propagates
retrieve_text(event, ext) ==
    LET hybrid == settings.enable_hybrid_search IN
    IF ext.text_fail = "dense_embedding" \/ (hybrid /\ ext.text_fail = "sparse_embedding")
    THEN Raise("retrieve_evidence", ext.text_fail)
    ELSE LET text_results == search_with_filter(event.similarity_top_k,
                                                event.target_sections, hybrid, ext)
         IN  IF text_results.type = "Exception"
             THEN text_results
             ELSE [type |-> "ok",
                   value |-> [i \in 1..Len(text_results.value) |->
                                 EvidenceChunk(text_results.value[i])]]

\* mutant: no try/except around the image search
retrieve_images_unguarded(event, ext) ==
    IF settings.enable_multimodal
    THEN IF ext.image_fail # "none"
         THEN Raise("retrieve_evidence", ext.image_fail)
         ELSE [type |-> "ok",
               value |-> [i \in 1..Len(ext.image_results) |->
                            ImageEvidence(ext.image_results[i])]]
    ELSE [type |-> "ok", value |-> <<>>]

\* image retrieval: runs inside try/except, a failure leaves images = []
retrieve_images(event, ext) ==
    IF settings.enable_multimodal
    THEN IF ext.image_fail # "none"
         THEN [type |-> "ok", value |-> <<>>]
         ELSE [type |-> "ok",
               value |-> [i \in 1..Len(ext.image_results) |->
                            ImageEvidence(ext.image_results[i])]]
    ELSE [type |-> "ok", value |-> <<>>]

Average(scores) == [sum |-> SumSeq(scores), n |-> Len(scores)]

Zero == [sum |-> 0, n |-> 1]

\* a / b < x for the average a / b
AvgLess(avg, x) == avg.sum < x * avg.n

SeqMin(s) == CHOOSE x \in Range(s) : \A y \in Range(s) : x <= y

SeqMax(s) == CHOOSE x \in Range(s) : \A y \in Range(s) : x >= y

calculate_coverage(chunks, images) ==
    IF chunks = <<>>
    THEN [unique_papers |-> 0, unique_sections |-> 0, avg_text_score |-> Zero,
          avg_image_score |-> Zero, total_evidence |-> 0]
    ELSE LET text_scores  == [i \in 1..Len(chunks) |-> chunks[i].score]
             image_scores == [i \in 1..Len(images) |-> images[i].score]
         IN  [unique_papers |-> Cardinality({chunks[i].paper_title : i \in 1..Len(chunks)}),
              unique_sections |-> Cardinality({chunks[i].section_title : i \in 1..Len(chunks)}),
              avg_text_score |-> Average(text_scores),
              avg_image_score |-> IF image_scores # <<>> THEN Average(image_scores) ELSE Zero,
              min_text_score |-> SeqMin(text_scores),
              max_text_score |-> SeqMax(text_scores),
              total_evidence |-> Len(chunks) + Len(images)]

\* mutant: the threshold is exclusive
is_evidence_sufficient_exclusive(chunks, threshold, coverage) ==
    IF Len(chunks) < 2 THEN FALSE
    ELSE IF coverage.avg_text_score.sum <= threshold * coverage.avg_text_score.n THEN FALSE
    ELSE IF coverage.unique_papers < 1 THEN FALSE
    ELSE TRUE

\* mutant: as the docstring has it, one text chunk and one image are enough
is_evidence_sufficient_with_images(chunks, threshold, coverage) ==
    IF Len(chunks) < 2 /\ ~(Len(chunks) >= 1 /\ coverage.total_evidence > Len(chunks))
    THEN FALSE
    ELSE IF AvgLess(coverage.avg_text_score, threshold) THEN FALSE
    ELSE IF coverage.unique_papers < 1 THEN FALSE
    ELSE TRUE

is_evidence_sufficient(chunks, threshold, coverage) ==
    IF Len(chunks) < 2 THEN FALSE
    ELSE IF AvgLess(coverage.avg_text_score, threshold) THEN FALSE
    ELSE IF coverage.unique_papers < 1 THEN FALSE
    ELSE TRUE

Text(template, args) == [template |-> template, args |-> args]

\* Branch A: proceed to analysis
proceed_to_analysis(event, chunks, images, coverage_stats) ==
    [type |-> "AnalysisEvent",
     intent_type |-> event.intent_type,
     chunks |-> chunks,
     images |-> images,
     coverage_stats |-> coverage_stats,
     confidence_threshold |-> event.confidence_threshold,
     original_question |-> event.original_question]

\* Branch B: request human review
request_human_review(chunks, images) ==
    [type |-> "HumanReviewEvent",
     reason |-> <<Text("Insufficient evidence coverage or low confidence scores", <<>>)>>,
     chunks |-> chunks,
     images |-> images,
     missing_papers |-> <<>>,
     conflicting_claims |-> None,
     suggested_actions |-> <<"Refine query for better results",
                             "Add more papers to corpus",
                             "Approve proceeding with available evidence">>]

\* mutant: the else branch is missing, process falls off its end and returns None
retrieval_decision_no_else(event, chunks, images) ==
    LET coverage_stats == calculate_coverage(chunks, images) IN
    IF is_evidence_sufficient(chunks, event.confidence_threshold, coverage_stats)
    THEN proceed_to_analysis(event, chunks, images, coverage_stats)
    ELSE None

\* the decision and the event it builds
retrieval_decision(event, chunks, images) ==
    LET coverage_stats == calculate_coverage(chunks, images) IN
    IF is_evidence_sufficient(chunks, event.confidence_threshold, coverage_stats)
    THEN proceed_to_analysis(event, chunks, images, coverage_stats)
    ELSE request_human_review(chunks, images)

\* an exception of either part leaves process; otherwise the decision is returned
retriever_process(event, ext) ==
    LET chunks == retrieve_text(event, ext) IN
    IF chunks.type = "Exception"
    THEN chunks
    ELSE LET images == retrieve_images(event, ext) IN
         IF images.type = "Exception"
         THEN images
         ELSE retrieval_decision(event, chunks.value, images.value)

-----------------------------------------------------------------------------
(* Agent 3: AnalysisSynthesisAgent *)

\* the phrases the two heuristics search the lower-cased answer for
UncertainPhrases == {"not found", "unclear", "uncertain", "cannot determine"}

\* A generated answer, by what the code reads of it: its length, the searched
\* phrases and the paper titles that occur in it (case-insensitively).
AnswerLengths == {0, 100, 300}

AnswerPhrases == {"not found", "not stated"}

LLMAnswers ==
    {a \in [type : {"text"}, len : AnswerLengths,
            phrases : SUBSET AnswerPhrases, titles : SUBSET PaperTitles] :
        a.len = 0 => (a.phrases = {} /\ a.titles = {})}

is_brief_summary_requested(question) ==
    IF question = <<>>
    THEN FALSE
    ELSE \E hint \in {"small", "short", "brief", "quick", "concise",
                      "simple", "tldr", "tl;dr", "in short", "briefly"} :
            KeywordIn(hint, question)

build_context(chunks) ==
    [i \in 1..Len(chunks) |->
        [n |-> i, paper_title |-> chunks[i].paper_title,
         section_title |-> chunks[i].section_title, page_start |-> chunks[i].page_start,
         page_end |-> chunks[i].page_end, text |-> chunks[i].text]]

\* mutant: citations are deduplicated by paper title alone
RECURSIVE extract_citations_by_title(_)
extract_citations_by_title(chunks) ==
    IF chunks = <<>> THEN <<>>
    ELSE LET chunk == chunks[Len(chunks)]
             front == SubSeq(chunks, 1, Len(chunks) - 1)
             seen  == {front[i].paper_title : i \in 1..Len(front)}
         IN  IF chunk.paper_title \in seen
             THEN extract_citations_by_title(front)
             ELSE Append(extract_citations_by_title(front),
                         [paper_title |-> chunk.paper_title,
                          section |-> chunk.section_title,
                          pages |-> <<chunk.page_start, chunk.page_end>>,
                          score |-> chunk.score])

RECURSIVE extract_citations(_)
extract_citations(chunks) ==
    IF chunks = <<>> THEN <<>>
    ELSE LET chunk == chunks[Len(chunks)]
             front == SubSeq(chunks, 1, Len(chunks) - 1)
             seen  == {<<front[i].paper_title, front[i].page_start>> : i \in 1..Len(front)}
         IN  IF <<chunk.paper_title, chunk.page_start>> \in seen
             THEN extract_citations(front)
             ELSE Append(extract_citations(front),
                         [paper_title |-> chunk.paper_title,
                          section |-> chunk.section_title,
                          pages |-> <<chunk.page_start, chunk.page_end>>,
                          score |-> chunk.score])

\* mutant: the title check comes before the length check
estimate_confidence_title_first(answer, chunks) ==
    IF answer.phrases \cap UncertainPhrases # {} THEN Fixed(3, 10)
    ELSE IF \E i \in 1..Min(3, Len(chunks)) : chunks[i].paper_title \in answer.titles
         THEN Fixed(85, 100)
    ELSE IF answer.len < 200 THEN Fixed(6, 10)
    ELSE Fixed(7, 10)

estimate_confidence(answer, chunks) ==
    IF answer.phrases \cap UncertainPhrases # {} THEN Fixed(3, 10)
    ELSE IF answer.len < 200 THEN Fixed(6, 10)
    ELSE IF \E i \in 1..Min(3, Len(chunks)) : chunks[i].paper_title \in answer.titles
         THEN Fixed(85, 100)
    ELSE Fixed(7, 10)

\* mutant: the synthesizer adds the first point of the collection to its context
synthesis_prompt_refetch(event) ==
    [template |-> "summary",
     context |-> build_context(Append(event.chunks,
                    EvidenceChunk(SearchResult([id |-> CorpusTable[1].id, score |-> 0,
                                                payload |-> CorpusTable[1]])))),
     question |-> event.original_question]

\* the prompt of the synthesis method the intent routes to
synthesis_prompt(event) ==
    LET template ==
            CASE event.intent_type = "summary" ->
                    IF is_brief_summary_requested(event.original_question)
                    THEN "summary_brief" ELSE "summary"
              [] event.intent_type = "comparison" -> "comparison"
              [] event.intent_type = "research_gaps" -> "research_gaps"
              [] OTHER -> "summary"
    IN  [template |-> template,
         context |-> build_context(event.chunks),
         question |-> event.original_question]

\* _synthesize_summary, _compare_papers, _identify_gaps: one completer call
synthesize(event, answer) ==
    [answer |-> answer,
     citations |-> extract_citations(event.chunks),
     confidence |-> estimate_confidence(answer, event.chunks)]

confident_answer(event, res) ==
    [type |-> "InternalStopEvent",
     answer |-> res.answer,
     citations |-> res.citations,
     images |-> <<>>,
     confidence_score |-> res.confidence,
     refused |-> FALSE,
     refusal_reason |-> None,
     intent_type |-> event.intent_type]

\* mutant: the review event of the Analysis step carries no chunks
low_confidence_review_without_chunks(event, res) ==
    [type |-> "HumanReviewEvent",
     reason |-> <<Text("Low confidence answer (score: {:.2f})", <<res.confidence>>)>>,
     chunks |-> <<>>,
     images |-> None,
     missing_papers |-> <<>>,
     conflicting_claims |-> None,
     suggested_actions |-> <<"Approve answer with disclaimer",
                             "Request more evidence",
                             "Refine question">>]

low_confidence_review(event, res) ==
    [type |-> "HumanReviewEvent",
     reason |-> <<Text("Low confidence answer (score: {:.2f})", <<res.confidence>>)>>,
     chunks |-> event.chunks,
     images |-> None,
     missing_papers |-> <<>>,
     conflicting_claims |-> None,
     suggested_actions |-> <<"Approve answer with disclaimer",
                             "Request more evidence",
                             "Refine question">>]

\* mutant: a low-confidence answer triggers another retrieval round
confidence_check_reretrieve(event, res) ==
    IF res.confidence >= event.confidence_threshold
    THEN confident_answer(event, res)
    ELSE [type |-> "RetrievalEvent",
          intent_type |-> event.intent_type,
          target_sections |-> determine_sections(event.intent_type),
          confidence_threshold |-> event.confidence_threshold,
          human_review_hint |-> TRUE,
          similarity_top_k |-> similarity_top_k,
          original_question |-> event.original_question]

\* mutant: the answer is released whatever its confidence
confidence_check_unchecked(event, res) ==
    confident_answer(event, res)

confidence_check(event, res) ==
    IF res.confidence >= event.confidence_threshold
    THEN confident_answer(event, res)
    ELSE low_confidence_review(event, res)

\* llm: what the completer did, [fail |-> TRUE] or [fail |-> FALSE, answer |-> a]
analyzer_process(event, llm) ==
    IF llm.fail
    THEN Raise("analyze_and_synthesize", "llm.complete")
    ELSE confidence_check(event, synthesize(event, llm.answer))

-----------------------------------------------------------------------------
(* GuardrailsService (services/guardrails_service.py) *)

HonestPatterns == {"not found", "not mentioned", "not stated",
                   "unclear", "not specified", "cannot determine"}

\* paper_title.lower()
LowerTitle(t) == str_lower(t)

\* a in b, for lower-cased titles
Within(a, b) == Contains(a, b)

Has(r, field) == field \in DOMAIN r

\* Citation(**c): paper_title, page_start >= 1 and page_end >= page_start are required
citation_valid(c) ==
    /\ Has(c, "paper_title")
    /\ Has(c, "page_start")
    /\ Has(c, "page_end")
    /\ c.page_start >= 1
    /\ c.page_end >= 1
    /\ c.page_end >= c.page_start

\* mutant: a confidence outside [0,1] is clamped and accepted
validate_schema_clamping(llm_output) ==
    LET answer_ok == /\ Has(llm_output, "answer")
                     /\ llm_output.answer.type = "text"
                     /\ llm_output.answer.len >= 50
                     /\ llm_output.answer.len <= 5000
        citations_ok == /\ Has(llm_output, "citations")
                        /\ Len(llm_output.citations) >= 1
                        /\ \A i \in 1..Len(llm_output.citations) :
                              citation_valid(llm_output.citations[i])
        confidence_ok == Has(llm_output, "confidence")
        errors == (IF answer_ok THEN {} ELSE {"answer"})
                    \cup (IF citations_ok THEN {} ELSE {"citations"})
                    \cup (IF confidence_ok THEN {} ELSE {"confidence"})
    IN  IF errors = {}
        THEN [valid |-> TRUE, errors |-> {},
              data |-> [answer |-> llm_output.answer,
                        citations |-> [i \in 1..Len(llm_output.citations) |->
                                         [paper_title |-> llm_output.citations[i].paper_title,
                                          page_start |-> llm_output.citations[i].page_start,
                                          page_end |-> llm_output.citations[i].page_end]],
                        confidence |-> Max(0, Min(Fixed(1, 1), llm_output.confidence)),
                        refused |-> IF Has(llm_output, "refused")
                                    THEN llm_output.refused ELSE FALSE]]
        ELSE [valid |-> FALSE, errors |-> errors, data |-> None]

\* ValidatedAnswer(**llm_output); a failed field is an error, nothing is repaired
validate_schema(llm_output) ==
    LET answer_ok == /\ Has(llm_output, "answer")
                     /\ llm_output.answer.type = "text"
                     /\ llm_output.answer.len >= 50
                     /\ llm_output.answer.len <= 5000
        citations_ok == /\ Has(llm_output, "citations")
                        /\ Len(llm_output.citations) >= 1
                        /\ \A i \in 1..Len(llm_output.citations) :
                              citation_valid(llm_output.citations[i])
        confidence_ok == /\ Has(llm_output, "confidence")
                         /\ llm_output.confidence >= 0
                         /\ llm_output.confidence <= Fixed(1, 1)
        errors == (IF answer_ok THEN {} ELSE {"answer"})
                    \cup (IF citations_ok THEN {} ELSE {"citations"})
                    \cup (IF confidence_ok THEN {} ELSE {"confidence"})
    IN  IF errors = {}
        THEN [valid |-> TRUE, errors |-> {},
              data |-> [answer |-> llm_output.answer,
                        citations |-> [i \in 1..Len(llm_output.citations) |->
                                         [paper_title |-> llm_output.citations[i].paper_title,
                                          page_start |-> llm_output.citations[i].page_start,
                                          page_end |-> llm_output.citations[i].page_end]],
                        confidence |-> llm_output.confidence,
                        refused |-> IF Has(llm_output, "refused")
                                    THEN llm_output.refused ELSE FALSE]]
        ELSE [valid |-> FALSE, errors |-> errors, data |-> None]

\* mutant: the penalty is not capped
validate_citation_grounding_uncapped(citations, chunks) ==
    IF citations = <<>>
    THEN [valid |-> FALSE, issues |-> <<"No citations provided">>,
          confidence_penalty |-> Fixed(4, 10)]
    ELSE LET chunk_papers == {chunks[i].paper_title : i \in 1..Len(chunks)}
             matched(c) == \E chunk_paper \in chunk_papers :
                              \/ Within(LowerTitle(c.paper_title), LowerTitle(chunk_paper))
                              \/ Within(LowerTitle(chunk_paper), LowerTitle(c.paper_title))
             issues == SelectSeq(citations, LAMBDA c : ~matched(c) /\ chunk_papers # {})
         IN  [valid |-> issues = <<>>,
              issues |-> [i \in 1..Len(issues) |-> issues[i].paper_title],
              confidence_penalty |-> Len(issues) * Fixed(15, 100)]

validate_citation_grounding(citations, chunks) ==
    IF citations = <<>>
    THEN [valid |-> FALSE, issues |-> <<"No citations provided">>,
          confidence_penalty |-> Fixed(4, 10)]
    ELSE LET chunk_papers == {chunks[i].paper_title : i \in 1..Len(chunks)}
             matched(c) == \E chunk_paper \in chunk_papers :
                              \/ Within(LowerTitle(c.paper_title), LowerTitle(chunk_paper))
                              \/ Within(LowerTitle(chunk_paper), LowerTitle(c.paper_title))
             issues == SelectSeq(citations, LAMBDA c : ~matched(c) /\ chunk_papers # {})
         IN  [valid |-> issues = <<>>,
              issues |-> [i \in 1..Len(issues) |-> issues[i].paper_title],
              confidence_penalty |-> Min(Len(issues) * Fixed(15, 100), Fixed(5, 10))]

check_hallucinations(answer, chunks) ==
    IF answer.phrases \cap HonestPatterns # {}
    THEN [valid |-> TRUE, issues |-> <<>>, penalty |-> 0]
    ELSE IF answer.len > 2000 /\ Len(chunks) < 3
         THEN [valid |-> FALSE, issues |-> <<"Very long answer from limited evidence">>,
               penalty |-> Fixed(1, 10)]
         ELSE [valid |-> TRUE, issues |-> <<>>, penalty |-> 0]

create_hitl_response(reason, errors) ==
    [status |-> "human_review_required", reason |-> reason, stage |-> "guardrails",
     validation_errors |-> errors]

\* mutant: the final confidence check is missing
validate_and_enforce_no_final_check(llm_output, retrieved_chunks) ==
    LET schema_result == validate_schema(llm_output) IN
    IF ~schema_result.valid
    THEN create_hitl_response("Schema validation failed after retry", schema_result.errors)
    ELSE
    LET validated_output == schema_result.data
        grounding_result == validate_citation_grounding(validated_output.citations,
                                                        retrieved_chunks)
        confidence1 == IF grounding_result.valid
                       THEN validated_output.confidence
                       ELSE Max(0, validated_output.confidence
                                     - grounding_result.confidence_penalty)
    IN  IF ~grounding_result.valid /\ confidence1 < Fixed(5, 10)
        THEN create_hitl_response("Citation grounding failed - low confidence",
                                  grounding_result.issues)
        ELSE
        LET hallucination_result == check_hallucinations(validated_output.answer,
                                                         retrieved_chunks)
            confidence2 == IF hallucination_result.valid
                           THEN confidence1
                           ELSE confidence1 - hallucination_result.penalty
        IN  IF FALSE
            THEN create_hitl_response("Low confidence after validation: {:.2f}",
                                      <<"Confidence below threshold (0.5)">>)
            ELSE [status |-> "valid",
                  answer |-> validated_output.answer,
                  citations |-> validated_output.citations,
                  confidence |-> confidence2,
                  refused |-> validated_output.refused]

validate_and_enforce(llm_output, retrieved_chunks) ==
    LET schema_result == validate_schema(llm_output) IN
    IF ~schema_result.valid
    THEN create_hitl_response("Schema validation failed after retry", schema_result.errors)
    ELSE
    LET validated_output == schema_result.data
        grounding_result == validate_citation_grounding(validated_output.citations,
                                                        retrieved_chunks)
        confidence1 == IF grounding_result.valid
                       THEN validated_output.confidence
                       ELSE Max(0, validated_output.confidence
                                     - grounding_result.confidence_penalty)
    IN  IF ~grounding_result.valid /\ confidence1 < Fixed(5, 10)
        THEN create_hitl_response("Citation grounding failed - low confidence",
                                  grounding_result.issues)
        ELSE
        LET hallucination_result == check_hallucinations(validated_output.answer,
                                                         retrieved_chunks)
            confidence2 == IF hallucination_result.valid
                           THEN confidence1
                           ELSE confidence1 - hallucination_result.penalty
        IN  IF confidence2 < Fixed(5, 10)
            THEN create_hitl_response("Low confidence after validation: {:.2f}",
                                      <<"Confidence below threshold (0.5)">>)
            ELSE [status |-> "valid",
                  answer |-> validated_output.answer,
                  citations |-> validated_output.citations,
                  confidence |-> confidence2,
                  refused |-> validated_output.refused]

-----------------------------------------------------------------------------
(* The workflow steps' own code *)

StopEvent(res) == [type |-> "StopEvent", result |-> res]

\* analyze_and_synthesize: an internal StopEvent becomes the workflow's StopEvent
analyze_step_result(out) ==
    IF out.type = "InternalStopEvent"
    THEN StopEvent([answer |-> out.answer,
                    citations |-> out.citations,
                    confidence |-> out.confidence_score,
                    refused |-> out.refused,
                    refusal_reason |-> out.refusal_reason,
                    intent_type |-> out.intent_type])
    ELSE out

\* text[:n]
Prefix(text, n) == [text EXCEPT !.len = Min(text.len, n)]

\* mutant: one chunk alone counts as no evidence
handle_human_review_result_two(ev) ==
    IF Len(ev.chunks) >= 2
    THEN StopEvent([answer |-> [type |-> "limited",
                                head |-> "[Limited evidence] ",
                                body |-> Prefix(ev.chunks[1].text, 500),
                                tail |-> "..."],
                    citations |-> [i \in 1..Min(3, Len(ev.chunks)) |->
                                     [paper_title |-> ev.chunks[i].paper_title,
                                      pages |-> <<ev.chunks[i].page_start,
                                                  ev.chunks[i].page_end>>]],
                    confidence |-> Fixed(4, 10),
                    refused |-> FALSE,
                    human_review_note |-> ev.reason])
    ELSE StopEvent([answer |-> None,
                    citations |-> <<>>,
                    confidence |-> 0,
                    refused |-> TRUE,
                    refusal_reason |-> ev.reason])

handle_human_review_result(ev) ==
    IF ev.chunks # <<>>
    THEN StopEvent([answer |-> [type |-> "limited",
                                head |-> "[Limited evidence] ",
                                body |-> Prefix(ev.chunks[1].text, 500),
                                tail |-> "..."],
                    citations |-> [i \in 1..Min(3, Len(ev.chunks)) |->
                                     [paper_title |-> ev.chunks[i].paper_title,
                                      pages |-> <<ev.chunks[i].page_start,
                                                  ev.chunks[i].page_end>>]],
                    confidence |-> Fixed(4, 10),
                    refused |-> FALSE,
                    human_review_note |-> ev.reason])
    ELSE StopEvent([answer |-> None,
                    citations |-> <<>>,
                    confidence |-> 0,
                    refused |-> TRUE,
                    refusal_reason |-> ev.reason])

-----------------------------------------------------------------------------
(* The stores behind the session routes and the upload routes, before any   *)
(* request                                                                  *)

\* the ids uuid4 hands out to create_session, each once
SessionIds == {"s1", "s2"}

\* the ids a request may name: those, and one that is never handed out
RequestedIds == SessionIds \cup {"missing"}

\* the file names a client may upload
Filenames == {"a.pdf", "notes.txt"}

SessionsAtRest ==
    /\ sessions = [id \in RequestedIds |-> "unused"]
    /\ chat_store = [id \in RequestedIds |-> <<>>]
    /\ requests = <<>>

UploadsAtRest ==
    /\ processing_status = [f \in Filenames |-> None]
    /\ status_log = [f \in Filenames |-> <<>>]
    /\ tasks = <<>>
    /\ answers = <<>>

-----------------------------------------------------------------------------
(* The workflow *)

StartEvents ==
    {[type |-> "StartEvent", question |-> q, session_id |-> None] : q \in Questions}

\* what the workflow does with the value a step returned: an exception ends
\* the run, None emits nothing, a StopEvent ends the run with its result, any
\* other event is queued for the step that accepts it
Dispatch(step, out) ==
    /\ handled' = Append(handled, step)
    /\ IF out.type = "Exception"
       THEN /\ failed' = out
            /\ queue' = <<>>
            /\ UNCHANGED <<emitted, result>>
       ELSE IF out.type = "None"
       THEN /\ queue' = Tail(queue)
            /\ UNCHANGED <<emitted, failed, result>>
       ELSE /\ emitted' = Append(emitted, [by |-> step, ev |-> out])
            /\ UNCHANGED failed
            /\ IF out.type = "StopEvent"
               THEN /\ result' = out.result
                    /\ queue' = <<>>
               ELSE /\ queue' = Append(Tail(queue), out)
                    /\ UNCHANGED result

Init ==
    /\ settings \in [enable_hybrid_search : BOOLEAN, enable_multimodal : BOOLEAN]
    /\ queue \in {<<ev>> : ev \in StartEvents}
    /\ handled = <<>>
    /\ emitted = <<>>
    /\ gate = None
    /\ synth = None
    /\ faults = <<>>
    /\ failed = None
    /\ result = None
    /\ engine = None
    /\ served = <<>>
    /\ applied = None
    /\ returned = None
    /\ SessionsAtRest
    /\ UploadsAtRest

orchestrate_query ==
    /\ queue # <<>>
    /\ queue[1].type = "StartEvent"
    /\ \E llm \in {"ok", "fail"}, response \in LLMClassifications :
          LET out == IF llm = "fail"
                     THEN Raise("orchestrate_query", "llm.complete")
                     ELSE orchestrator_process(queue[1], response)
          IN  /\ Dispatch("orchestrate_query", out)
              /\ faults' = IF llm = "fail"
                           THEN Append(faults, [step |-> "orchestrate_query",
                                                call |-> "llm.complete"])
                           ELSE faults
    /\ UNCHANGED <<settings, gate, synth, engineVars, callVars, sessionVars, uploadVars>>

\* every way the embedders and the index may answer during one retrieval
RetrievalExternals(event) ==
    LET hybrid == settings.enable_hybrid_search
        query_filter == section_filter(event.target_sections)
        limit == event.similarity_top_k
        TextFailures == {"dense_embedding", "dense_query"}
                          \cup (IF hybrid THEN {"sparse_embedding", "sparse_query"} ELSE {})
        Failed == {[text_fail |-> f, dense_results |-> <<>>, sparse_results |-> <<>>,
                    order |-> <<>>, image_fail |-> "none", image_results |-> <<>>] :
                      f \in TextFailures}
        TextOk == IF hybrid
                  THEN UNION {
                         {[dense_results |-> d, sparse_results |-> s, order |-> o] :
                             o \in {q \in DistinctSeqs(Ids(d) \cup Ids(s), 2 * limit) :
                                       Len(q) = Cardinality(Ids(d) \cup Ids(s))}} :
                         d \in QueryPoints(query_filter, limit * 2, {Fixed(5, 10)}),
                         s \in QueryPoints(query_filter, limit * 2, {Fixed(5, 10)})}
                  ELSE {[dense_results |-> d, sparse_results |-> <<>>, order |-> <<>>] :
                           d \in QueryPoints(query_filter, limit, DenseScores)}
        ImageOk == IF settings.enable_multimodal
                   THEN {[image_fail |-> "none", image_results |-> r] :
                            r \in SearchImages(image_limit, min_score)}
                        \cup {[image_fail |-> f, image_results |-> <<>>] :
                                 f \in {"clip_embedding", "image_query"}}
                   ELSE {[image_fail |-> "none", image_results |-> <<>>]}
    IN  Failed \cup
        {[text_fail |-> "none", dense_results |-> t.dense_results,
          sparse_results |-> t.sparse_results, order |-> t.order,
          image_fail |-> i.image_fail, image_results |-> i.image_results] :
            t \in TextOk, i \in ImageOk}

retrieve_evidence ==
    /\ queue # <<>>
    /\ queue[1].type = "RetrievalEvent"
    /\ \E ext \in RetrievalExternals(queue[1]) :
          LET ev     == queue[1]
              chunks == retrieve_text(ev, ext)
              images == retrieve_images(ev, ext)
              out    == retriever_process(ev, ext)
          IN  /\ Dispatch("retrieve_evidence", out)
              /\ gate' = IF chunks.type = "Exception" \/ images.type = "Exception"
                         THEN gate
                         ELSE [type |-> "gate",
                               chunks |-> chunks.value,
                               images |-> images.value,
                               threshold |-> ev.confidence_threshold]
              /\ faults' = faults
                    \o (IF ext.text_fail # "none"
                        THEN <<[step |-> "retrieve_evidence", call |-> ext.text_fail]>>
                        ELSE <<>>)
                    \o (IF ext.image_fail # "none"
                        THEN <<[step |-> "retrieve_evidence", call |-> ext.image_fail]>>
                        ELSE <<>>)
    /\ UNCHANGED <<settings, synth, engineVars, callVars, sessionVars, uploadVars>>

analyze_and_synthesize ==
    /\ queue # <<>>
    /\ queue[1].type = "AnalysisEvent"
    /\ \E llm \in {[fail |-> TRUE, answer |-> None]}
                    \cup {[fail |-> FALSE, answer |-> a] : a \in LLMAnswers} :
          LET ev  == queue[1]
              out == analyzer_process(ev, llm)
          IN  /\ Dispatch("analyze_and_synthesize", analyze_step_result(out))
              /\ synth' = IF llm.fail
                          THEN [type |-> "synth", prompt |-> synthesis_prompt(ev),
                                completed |-> FALSE]
                          ELSE [type |-> "synth", prompt |-> synthesis_prompt(ev),
                                completed |-> TRUE,
                                output |-> synthesize(ev, llm.answer),
                                chunks |-> ev.chunks,
                                threshold |-> ev.confidence_threshold]
              /\ faults' = IF llm.fail
                           THEN Append(faults, [step |-> "analyze_and_synthesize",
                                                call |-> "llm.complete"])
                           ELSE faults
    /\ UNCHANGED <<settings, gate, engineVars, callVars, sessionVars, uploadVars>>

handle_human_review ==
    /\ queue # <<>>
    /\ queue[1].type = "HumanReviewEvent"
    /\ Dispatch("handle_human_review", handle_human_review_result(queue[1]))
    /\ UNCHANGED <<settings, gate, synth, faults, engineVars, callVars, sessionVars, uploadVars>>

Next ==
    \/ orchestrate_query
    \/ retrieve_evidence
    \/ analyze_and_synthesize
    \/ handle_human_review

Spec == Init /\ [][Next]_vars

-----------------------------------------------------------------------------
(* IntelligentQueryEngine (services/query_engine.py): the engine behind     *)
(* POST /query.  get_query_engine() builds one instance and every request   *)
(* is answered by it.                                                       *)

\* number of requests one behaviour sends
MaxRequests == 3

settings_similarity_top_k == 5

TopKs == {3, settings_similarity_top_k}

ResponseModes == {"compact", "tree_summarize"}

SearchModes == {"dense", "sparse", "hybrid"}

QueryRequests ==
    [question : Questions, similarity_top_k : TopKs,
     response_mode : ResponseModes, search_mode : SearchModes]

\* the index is only read: for one question it ranks the collection the same
\* way each time
IndexRanking(question) ==
    [i \in 1..Min(NumPoints, Len(CorpusTable)) |-> CorpusTable[i].id]

\* the workflow is at rest while the engine or a library function is exercised
WorkflowAtRest ==
    /\ settings = [enable_hybrid_search |-> TRUE, enable_multimodal |-> TRUE]
    /\ queue = <<>>
    /\ handled = <<>>
    /\ emitted = <<>>
    /\ gate = None
    /\ synth = None
    /\ faults = <<>>
    /\ failed = None
    /\ result = None

\* IntelligentQueryEngine.__init__ and index.as_query_engine
as_query_engine(top_k, response_mode) ==
    [type |-> "engine", similarity_top_k |-> top_k, response_mode |-> response_mode]

EngineInit ==
    /\ WorkflowAtRest
    /\ engine = as_query_engine(settings_similarity_top_k, "compact")
    /\ served = <<>>
    /\ applied = None
    /\ returned = None
    /\ SessionsAtRest
    /\ UploadsAtRest

\* _query_with_mode: sparse and hybrid requests query the collection directly
\* with the request's own top_k
query_with_mode(request) ==
    LET sources == Take(IndexRanking(request.question), request.similarity_top_k)
    IN  [question |-> request.question, sources |-> sources,
         num_sources |-> Len(sources), response_mode |-> request.response_mode,
         search_mode |-> request.search_mode]

\* the engine a dense request leaves in self.engine
engine_after(eng, request) ==
    IF request.similarity_top_k # settings_similarity_top_k
    THEN as_query_engine(request.similarity_top_k, request.response_mode)
    ELSE eng

\* the dense branch of query(): self.engine.query(question)
query_dense(eng, request) ==
    LET sources == Take(IndexRanking(request.question), eng.similarity_top_k)
    IN  [question |-> request.question, sources |-> sources,
         num_sources |-> Len(sources), response_mode |-> request.response_mode,
         search_mode |-> request.search_mode]

\* IntelligentQueryEngine.query
engine_query ==
    /\ Len(served) < MaxRequests
    /\ \E request \in QueryRequests :
          IF request.search_mode \in {"sparse", "hybrid"}
          THEN /\ served' = Append(served, [request |-> request,
                                            response |-> query_with_mode(request)])
               /\ UNCHANGED engine
          ELSE /\ engine' = engine_after(engine, request)
               /\ served' = Append(served, [request |-> request,
                                            response |-> query_dense(engine', request)])
    /\ UNCHANGED <<workflowVars, callVars, sessionVars, uploadVars>>

EngineNext == engine_query

EngineSpec == EngineInit /\ [][EngineNext]_vars

-----------------------------------------------------------------------------
(* IntentClassifier (services/intent_classifier.py) *)

\* number of words of the questions handed to classify
MaxWords == 2

INTENT_SECTION_MAP ==
    [summary |-> <<"Abstract", "Introduction">>,
     methodology |-> <<"Methods">>,
     experiments |-> <<"Experiments", "Results">>,
     results |-> <<"Results">>,
     research_gaps |-> <<"Discussion", "Limitations", "Future Work">>,
     limitations |-> <<"Discussion", "Limitations">>,
     future_work |-> <<"Future Work">>,
     comparison |-> <<"Results", "Experiments">>,
     citation |-> <<"References">>,
     general |-> <<"Abstract", "Introduction", "Methods", "Results">>]

INTENT_KEYWORDS ==
    [limitations |-> <<"limitation", "drawback", "shortcoming", "weakness", "problem with",
                       "issue with", "challenge", "constraint", "restriction", "downside">>,
     future_work |-> <<"future work", "future direction", "next step", "improve",
                       "extension", "further research", "open question", "remaining">>,
     research_gaps |-> <<"gap", "missing", "lack", "unexplored", "underexplored",
                         "overlooked", "not addressed", "unresolved">>,
     methodology |-> <<"method", "approach", "technique", "algorithm", "how does", "how do",
                       "procedure", "framework", "architecture", "design",
                       "implementation">>,
     experiments |-> <<"experiment", "evaluation", "benchmark", "test", "dataset",
                       "baseline", "ablation", "hyperparameter", "training", "fine-tun">>,
     results |-> <<"result", "performance", "accuracy", "score", "metric", "outcome",
                   "finding", "achieve", "outperform">>,
     comparison |-> <<"compare", "comparison", "versus", "vs", "differ", "better than",
                      "worse than", "relative to", "against">>,
     summary |-> <<"summary", "summarize", "overview", "what is", "explain", "describe",
                   "introduction", "main idea", "key point", "tldr", "gist">>,
     citation |-> <<"reference", "cite", "citation", "source", "bibliography",
                    "paper by">>]

INTENT_PRIORITY ==
    [citation |-> 100, limitations |-> 90, future_work |-> 85, research_gaps |-> 80,
     methodology |-> 70, experiments |-> 60, results |-> 50, comparison |-> 40,
     summary |-> 20, general |-> 10]

IntentResult(intent, allowed_sections, confidence) ==
    [type |-> "IntentResult", intent |-> intent, allowed_sections |-> allowed_sections,
     confidence |-> confidence]

Str(value) == [type |-> "str", value |-> value]

\* the intents with a keyword in the lower-cased query
matched_intents(query_lower) ==
    {intent \in DOMAIN INTENT_KEYWORDS :
        \E i \in 1..Len(INTENT_KEYWORDS[intent]) :
            Contains(INTENT_KEYWORDS[intent][i], query_lower)}

\* mutant: the matched intent of lowest priority wins
classify_lowest_priority(query) ==
    IF query.type # "str"
    THEN [type |-> "AttributeError", object |-> query.type, attribute |-> "lower"]
    ELSE LET matched == matched_intents(str_lower(query.value)) IN
         IF matched # {}
         THEN LET best_intent == CHOOSE i \in matched :
                                    \A m \in matched : INTENT_PRIORITY[m] >= INTENT_PRIORITY[i]
              IN  IntentResult(best_intent, INTENT_SECTION_MAP[best_intent], Fixed(1, 1))
         ELSE IntentResult("general", INTENT_SECTION_MAP["general"], Fixed(5, 10))

\* IntentClassifier.classify; query.lower() of a query that is no string raises
classify(query) ==
    IF query.type # "str"
    THEN [type |-> "AttributeError", object |-> query.type, attribute |-> "lower"]
    ELSE LET matched == matched_intents(str_lower(query.value)) IN
         IF matched # {}
         THEN LET best_intent == CHOOSE i \in matched :
                                    \A m \in matched : INTENT_PRIORITY[m] <= INTENT_PRIORITY[i]
              IN  IntentResult(best_intent, INTENT_SECTION_MAP[best_intent], Fixed(1, 1))
         ELSE IntentResult("general", INTENT_SECTION_MAP["general"], Fixed(5, 10))

Vocabulary == {"What", "is", "limitations", "Summarize", "latest", "LoRA",
               "references", "versus", "gap"}

\* the words of ws joined by single spaces
RECURSIVE Join(_)
Join(ws) ==
    IF ws = <<>> THEN ""
    ELSE IF Len(ws) = 1 THEN ws[1]
    ELSE ws[1] \o " " \o Join(Tail(ws))

\* what a caller may hand to classify: a string, the empty one included, or None
ClassifierQueries ==
    {Str(Join(ws)) : ws \in UNION {[1..n -> Vocabulary] : n \in 0..MaxWords}} \cup {None}

\* one function is applied to one choice of arguments in each behaviour
LibraryInit ==
    /\ WorkflowAtRest
    /\ engine = None
    /\ served = <<>>
    /\ applied = None
    /\ returned = None
    /\ SessionsAtRest
    /\ UploadsAtRest

apply_classify ==
    /\ applied = None
    /\ \E query \in ClassifierQueries :
          /\ applied' = [type |-> "call", fn |-> "classify", query |-> query]
          /\ returned' = classify(query)
    /\ UNCHANGED <<workflowVars, engineVars, sessionVars, uploadVars>>

\* section labels a chunk may carry
SectionLabels == {"Abstract", "Methods", "Results", "References", "Unknown"}

\* number of entries of an allowed-section list
MaxSections == 2

SectionLists == UNION {[1..n -> SectionLabels] : n \in 0..MaxSections}

\* IntentClassifier.get_qdrant_filter: Unknown is always removed, References
\* unless the intent is citation; the filter is built even when nothing is left
get_qdrant_filter(intent_result) ==
    LET allowed == SelectSeq(intent_result.allowed_sections,
                             LAMBDA l : /\ l # "Unknown"
                                        /\ (l = "References" => intent_result.intent = "citation"))
    IN  [type |-> "Filter", key |-> "section_title", any |-> allowed]

\* the labels a filter lets through
AdmittedLabels(query_filter) ==
    {l \in SectionLabels : Admits(query_filter, [section_title |-> l])}

apply_get_qdrant_filter ==
    /\ applied = None
    /\ \E intent \in DOMAIN INTENT_PRIORITY, allowed_sections \in SectionLists :
          LET query_filter == get_qdrant_filter(IntentResult(intent, allowed_sections,
                                                             Fixed(1, 1)))
          IN  /\ applied' = [type |-> "call", fn |-> "get_qdrant_filter",
                             intent |-> intent, allowed_sections |-> allowed_sections]
              /\ returned' = [type |-> "filter", query_filter |-> query_filter,
                              admitted |-> AdmittedLabels(query_filter)]
    /\ UNCHANGED <<workflowVars, engineVars, sessionVars, uploadVars>>

\* the filter search_with_filter hands to both index queries when it searches
\* for a request of the given intent
apply_section_filter ==
    /\ applied = None
    /\ \E intent \in DOMAIN INTENT_PRIORITY, allowed_sections \in SectionLists :
          LET query_filter == section_filter(allowed_sections)
          IN  /\ applied' = [type |-> "call", fn |-> "search_with_filter",
                             intent |-> intent, allowed_sections |-> allowed_sections]
              /\ returned' = [type |-> "filter", query_filter |-> query_filter,
                              admitted |-> AdmittedLabels(query_filter)]
    /\ UNCHANGED <<workflowVars, engineVars, sessionVars, uploadVars>>

\* length of the result lists handed to the fusion
MaxRank == 3

\* the result lists an index query may return: distinct points, best first
RankedLists == DistinctSeqs({[id |-> i] : i \in 1..MaxRank}, MaxRank)

\* the score _rrf_fusion computes for one point of the two lists
apply_rrf_score ==
    /\ applied = None
    /\ \E dense_results \in RankedLists, sparse_results \in RankedLists :
          \E id \in Ids(dense_results) \cup Ids(sparse_results) :
             /\ applied' = [type |-> "call", fn |-> "rrf_score",
                            dense_results |-> dense_results,
                            sparse_results |-> sparse_results, id |-> id]
             /\ returned' = [type |-> "score",
                             score |-> rrf_score(dense_results, sparse_results, id)]
    /\ UNCHANGED <<workflowVars, engineVars, sessionVars, uploadVars>>

\* length of the result lists handed to _rrf_fusion
MaxFused == 2

\* the result lists of the two index queries of _hybrid_search, each point
\* with the score its index computed
FusionLists(score) ==
    {[i \in 1..Len(l) |-> [id |-> l[i].id, score |-> score]] :
        l \in {r \in RankedLists : Len(r) <= MaxFused}}

FusionLimits == {1, 2, similarity_top_k}

\* _rrf_fusion on the two lists, for every iteration order of the set all_ids
apply_rrf_fusion ==
    /\ applied = None
    /\ \E dense_results \in FusionLists(Fixed(9, 10)),
          sparse_results \in FusionLists(Fixed(3, 10)),
          limit \in FusionLimits :
          LET all_ids == Ids(dense_results) \cup Ids(sparse_results) IN
          \E order \in {o \in DistinctSeqs(all_ids, Cardinality(all_ids)) :
                            Len(o) = Cardinality(all_ids)} :
             /\ applied' = [type |-> "call", fn |-> "rrf_fusion",
                            dense_results |-> dense_results,
                            sparse_results |-> sparse_results,
                            limit |-> limit, order |-> order]
             /\ returned' = [type |-> "points",
                             points |-> rrf_fusion(dense_results, sparse_results,
                                                   limit, order)]
    /\ UNCHANGED <<workflowVars, engineVars, sessionVars, uploadVars>>

\* length of the chunk lists handed to _extract_citations
MaxChunks == 3

\* the chunk retrieval makes of a point of the collection
ChunkOf(p) ==
    EvidenceChunk(SearchResult([id |-> p.id, score |-> Fixed(5, 10), payload |-> p]))

ChunkLists == UNION {[1..n -> {ChunkOf(p) : p \in Corpus}] : n \in 0..MaxChunks}

apply_extract_citations ==
    /\ applied = None
    /\ \E chunks \in ChunkLists :
          /\ applied' = [type |-> "call", fn |-> "extract_citations", chunks |-> chunks]
          /\ returned' = [type |-> "citations", citations |-> extract_citations(chunks)]
    /\ UNCHANGED <<workflowVars, engineVars, sessionVars, uploadVars>>

\* length of the chunk lists handed to _estimate_confidence
MaxContext == 4

\* the chunk lists a retrieval may hand on: distinct points of the collection
ContextLists == DistinctSeqs({ChunkOf(p) : p \in Corpus}, MaxContext)

apply_estimate_confidence ==
    /\ applied = None
    /\ \E answer \in LLMAnswers, chunks \in ContextLists :
          /\ applied' = [type |-> "call", fn |-> "estimate_confidence",
                         answer |-> answer, chunks |-> chunks]
          /\ returned' = [type |-> "confidence",
                          confidence |-> estimate_confidence(answer, chunks)]
    /\ UNCHANGED <<workflowVars, engineVars, sessionVars, uploadVars>>

\* number of citations of an output handed to the validator
MaxCitations == 4

CitationLists ==
    UNION {[1..n -> [paper_title : PaperTitles, page_start : {1}, page_end : {2}]] :
              n \in 0..MaxCitations}

\* the chunks retrieved for the output: the first points of the collection
ValidatorChunks ==
    {[i \in 1..n |-> ChunkOf(CorpusTable[i])] : n \in 0..Min(MaxChunks, NumPoints)}

\* titles a citation may carry: a paper's title, part of one, one with a suffix
CitedTitles == PaperTitles \cup {"paper", "PAPER B (v2)"}

GroundingCitations ==
    UNION {[1..n -> [paper_title : CitedTitles, page_start : {1}, page_end : {2}]] :
              n \in 0..MaxCitations}

apply_validate_citation_grounding ==
    /\ applied = None
    /\ \E citations \in GroundingCitations, chunks \in ValidatorChunks :
          /\ applied' = [type |-> "call", fn |-> "validate_citation_grounding",
                         citations |-> citations, chunks |-> chunks]
          /\ returned' = [type |-> "grounding",
                          result |-> validate_citation_grounding(citations, chunks)]
    /\ UNCHANGED <<workflowVars, engineVars, sessionVars, uploadVars>>

InputConfidences ==
    {0 - Fixed(2, 10), 0, Fixed(3, 10), Fixed(5, 10), Fixed(6, 10), Fixed(95, 100),
     Fixed(1, 1), Fixed(12, 10)}

\* the outputs handed to validate_and_enforce
ValidatorOutputs ==
    [answer : [type : {"text"}, len : {10, 100, 2500},
               phrases : {{}, {"not found"}, {"not stated"}}, titles : {{}}],
     citations : CitationLists,
     confidence : InputConfidences,
     refused : {FALSE}]

apply_validate_and_enforce ==
    /\ applied = None
    /\ \E llm_output \in ValidatorOutputs, retrieved_chunks \in ValidatorChunks :
          /\ applied' = [type |-> "call", fn |-> "validate_and_enforce",
                         llm_output |-> llm_output,
                         retrieved_chunks |-> retrieved_chunks]
          /\ returned' = validate_and_enforce(llm_output, retrieved_chunks)
    /\ UNCHANGED <<workflowVars, engineVars, sessionVars, uploadVars>>

LibraryNext ==
    \/ apply_classify
    \/ apply_get_qdrant_filter
    \/ apply_section_filter
    \/ apply_rrf_score
    \/ apply_rrf_fusion
    \/ apply_extract_citations
    \/ apply_estimate_confidence
    \/ apply_validate_citation_grounding
    \/ apply_validate_and_enforce

LibrarySpec == LibraryInit /\ [][LibraryNext]_vars

-----------------------------------------------------------------------------
(* The session routes (api/routes/sessions.py) over SessionService          *)
(* (services/session_service.py).  The sessions collection and the chat     *)
(* store live in MongoDB and are shared by every worker that serves the     *)
(* routes, so the store calls of different requests may interleave.         *)

\* number of session_query and delete_session requests of one behaviour
MaxSessionRequests == 3

\* mutant: the user message is not written to the chat store
add_user_message_unsaved(store, session_id) == store

\* SessionService.add_user_message: chat_store.add_message with role USER
add_user_message(store, session_id) ==
    [store EXCEPT ![session_id] = Append(@, "user")]

\* SessionService.add_assistant_message: chat_store.add_message with role ASSISTANT
add_assistant_message(store, session_id) ==
    [store EXCEPT ![session_id] = Append(@, "assistant")]

\* a client names an id it was given by create_session, or one of its own
\* making, which no session ever has
KnownIds == {id \in RequestedIds : id \notin SessionIds \/ sessions[id] # "unused"}

SessionInit ==
    /\ WorkflowAtRest
    /\ engine = None
    /\ served = <<>>
    /\ applied = None
    /\ returned = None
    /\ SessionsAtRest
    /\ UploadsAtRest

\* POST /sessions: insert_one of a document with a fresh id
create_session ==
    /\ \E id \in SessionIds :
          /\ sessions[id] = "unused"
          /\ sessions' = [sessions EXCEPT ![id] = "live"]
    /\ UNCHANGED <<chat_store, requests>>
    /\ UNCHANGED <<workflowVars, engineVars, callVars, uploadVars>>

\* session_query up to "Verify session exists": 404 when get_session finds no
\* document
session_query_verify ==
    /\ Len(requests) < MaxSessionRequests
    /\ \E session_id \in KnownIds :
          requests' = Append(requests,
                        [kind |-> "session_query", session_id |-> session_id,
                         pc |-> IF sessions[session_id] = "live"
                                THEN "verified" ELSE "404",
                         stored |-> <<>>])
    /\ UNCHANGED <<sessions, chat_store>>
    /\ UNCHANGED <<workflowVars, engineVars, callVars, uploadVars>>

\* 1. Save user message
session_query_save_user ==
    /\ \E i \in 1..Len(requests) :
          /\ requests[i].kind = "session_query"
          /\ requests[i].pc = "verified"
          /\ chat_store' = add_user_message(chat_store, requests[i].session_id)
          /\ requests' = [requests EXCEPT ![i].pc = "user_saved",
                                          ![i].stored = Append(@, "user")]
    /\ UNCHANGED sessions
    /\ UNCHANGED <<workflowVars, engineVars, callVars, uploadVars>>

\* 2. Run RAG query: it returns a result or raises, which ends the request
\* with status 500
session_query_run ==
    /\ \E i \in 1..Len(requests), ok \in BOOLEAN :
          /\ requests[i].kind = "session_query"
          /\ requests[i].pc = "user_saved"
          /\ requests' = [requests EXCEPT ![i].pc = IF ok THEN "answered" ELSE "500"]
    /\ UNCHANGED <<sessions, chat_store>>
    /\ UNCHANGED <<workflowVars, engineVars, callVars, uploadVars>>

\* 3. Save assistant response, 4. Return response
session_query_save_assistant ==
    /\ \E i \in 1..Len(requests) :
          /\ requests[i].kind = "session_query"
          /\ requests[i].pc = "answered"
          /\ chat_store' = add_assistant_message(chat_store, requests[i].session_id)
          /\ requests' = [requests EXCEPT ![i].pc = "200",
                                          ![i].stored = Append(@, "assistant")]
    /\ UNCHANGED sessions
    /\ UNCHANGED <<workflowVars, engineVars, callVars, uploadVars>>

\* SessionService.delete_session, first call: delete_one on the collection
delete_session_document ==
    /\ Len(requests) < MaxSessionRequests
    /\ \E session_id \in KnownIds :
          /\ requests' = Append(requests,
                           [kind |-> "delete_session", session_id |-> session_id,
                            pc |-> "document_deleted",
                            deleted_count |-> IF sessions[session_id] = "live"
                                              THEN 1 ELSE 0])
          /\ sessions' = IF sessions[session_id] = "live"
                         THEN [sessions EXCEPT ![session_id] = "deleted"]
                         ELSE sessions
    /\ UNCHANGED chat_store
    /\ UNCHANGED <<workflowVars, engineVars, callVars, uploadVars>>

\* SessionService.delete_session, second call: chat_store.delete_messages,
\* whether or not a document was deleted; then 404 when none was
delete_session_messages ==
    /\ \E i \in 1..Len(requests) :
          /\ requests[i].kind = "delete_session"
          /\ requests[i].pc = "document_deleted"
          /\ chat_store' = [chat_store EXCEPT ![requests[i].session_id] = <<>>]
          /\ requests' = [requests EXCEPT
                            ![i].pc = IF requests[i].deleted_count > 0
                                      THEN "200" ELSE "404"]
    /\ UNCHANGED sessions
    /\ UNCHANGED <<workflowVars, engineVars, callVars, uploadVars>>

SessionNext ==
    \/ create_session
    \/ session_query_verify
    \/ session_query_save_user
    \/ session_query_run
    \/ session_query_save_assistant
    \/ delete_session_document
    \/ delete_session_messages

SessionSpec == SessionInit /\ [][SessionNext]_vars

-----------------------------------------------------------------------------
(* The upload routes (api/routes/upload.py).  upload_pdf hands process_pdf  *)
(* to BackgroundTasks: it runs after the response was sent, in a worker     *)
(* thread, while the event loop serves other requests.                      *)

\* number of upload requests of one behaviour
MaxUploads == 2

\* number of status requests of one behaviour
MaxStatusQueries == 2

\* file.filename.endswith('.pdf')
endswith_pdf(filename) ==
    /\ Len(filename) >= 4
    /\ SubSeq(filename, Len(filename) - 3, Len(filename)) = ".pdf"

\* the calls of process_pdf that may raise
IngestionSteps == {"create_collection", "parse", "chunk_paper", "generate_embeddings",
                   "generate_sparse_embeddings", "insert_chunks"}

\* len(chunks) of a parsed paper
ChunkCounts == {3}

StatusEntry(status, chunks_created) ==
    [type |-> "entry", status |-> status, chunks_created |-> chunks_created]

FailedEntry(step) ==
    [type |-> "entry", status |-> "failed", chunks_created |-> 0, error |-> step]

Answered(route, n) == Cardinality({i \in 1..Len(answers) : answers[i].route = route}) < n

UploadInit ==
    /\ WorkflowAtRest
    /\ engine = None
    /\ served = <<>>
    /\ applied = None
    /\ returned = None
    /\ SessionsAtRest
    /\ UploadsAtRest

\* POST /upload: 400 for a name that does not end in .pdf, 500 when the file
\* cannot be saved; otherwise the task is added and "processing" is answered
upload_pdf ==
    /\ Answered("upload", MaxUploads)
    /\ \E filename \in Filenames, saved \in BOOLEAN :
          IF ~endswith_pdf(filename)
          THEN /\ answers' = Append(answers, [route |-> "upload", filename |-> filename,
                                              status |-> "400"])
               /\ UNCHANGED tasks
          ELSE IF ~saved
          THEN /\ answers' = Append(answers, [route |-> "upload", filename |-> filename,
                                              status |-> "500"])
               /\ UNCHANGED tasks
          ELSE /\ tasks' = Append(tasks, [filename |-> filename, pc |-> "added"])
               /\ answers' = Append(answers, [route |-> "upload", filename |-> filename,
                                              status |-> "processing"])
    /\ UNCHANGED <<processing_status, status_log>>
    /\ UNCHANGED <<workflowVars, engineVars, callVars, sessionVars>>

\* process_pdf, its first statement: the status entry is created
process_pdf_start ==
    /\ \E i \in 1..Len(tasks) :
          /\ tasks[i].pc = "added"
          /\ processing_status' = [processing_status EXCEPT
                                     ![tasks[i].filename] = StatusEntry("processing", 0)]
          /\ status_log' = [status_log EXCEPT
                              ![tasks[i].filename] = Append(@, "processing")]
          /\ tasks' = [tasks EXCEPT ![i].pc = "processing"]
    /\ UNCHANGED answers
    /\ UNCHANGED <<workflowVars, engineVars, callVars, sessionVars>>

\* process_pdf, the rest: the ingestion runs to its end or one of its calls
\* raises, and the entry is overwritten accordingly
process_pdf_finish ==
    /\ \E i \in 1..Len(tasks) :
          /\ tasks[i].pc = "processing"
          /\ \E entry \in {StatusEntry("completed", n) : n \in ChunkCounts}
                            \cup {FailedEntry(step) : step \in IngestionSteps} :
                /\ processing_status' = [processing_status EXCEPT
                                           ![tasks[i].filename] = entry]
                /\ status_log' = [status_log EXCEPT
                                    ![tasks[i].filename] = Append(@, entry.status)]
                /\ tasks' = [tasks EXCEPT ![i].pc = "returned"]
    /\ UNCHANGED answers
    /\ UNCHANGED <<workflowVars, engineVars, callVars, sessionVars>>

\* GET /upload/status/{filename}
get_processing_status ==
    /\ Answered("status", MaxStatusQueries)
    /\ \E filename \in Filenames :
          answers' = Append(answers,
                       [route |-> "status", filename |-> filename,
                        status |-> IF processing_status[filename] = None
                                   THEN "not_found"
                                   ELSE processing_status[filename].status])
    /\ UNCHANGED <<processing_status, status_log, tasks>>
    /\ UNCHANGED <<workflowVars, engineVars, callVars, sessionVars>>

UploadNext ==
    \/ upload_pdf
    \/ process_pdf_start
    \/ process_pdf_finish
    \/ get_processing_status

UploadSpec == UploadInit /\ [][UploadNext]_vars

-----------------------------------------------------------------------------
(* Properties *)

MIN_CHUNKS == 2

Last(s) == s[Len(s)]

\* the events a step returned
StepOuts(step) == SelectSeq(emitted, LAMBDA e : e.by = step)

IsPrefix(s, t) == Len(s) <= Len(t) /\ SubSeq(t, 1, Len(s)) = s

TextCalls == {"dense_embedding", "sparse_embedding", "dense_query", "sparse_query"}

ImageCalls == {"clip_embedding", "image_query"}

HardCalls == TextCalls \cup {"llm.complete"}

\* the three rules of the sufficiency gate, as the specification states them
ClaimedSufficient(g) ==
    /\ Len(g.chunks) >= MIN_CHUNKS
    /\ SumSeq([i \in 1..Len(g.chunks) |-> g.chunks[i].score]) >= g.threshold * Len(g.chunks)
    /\ Cardinality({g.chunks[i].paper_title : i \in 1..Len(g.chunks)}) >= 1

\* number of characters of a final answer
AnswerLength(a) ==
    IF a.type = "text" THEN a.len
    ELSE IF a.type = "limited" THEN 19 + a.body.len + 3
    ELSE 0

\* C1: when the retrieval step ran and no text embedding or text index call
\* failed, the step returned exactly one event; it is an AnalysisEvent when the
\* sufficiency check accepted the retrieved chunks and a HumanReviewEvent when
\* it did not, and it is the one event waiting in the queue.
C1_RetrievalEmitsExactlyOne ==
    (/\ "retrieve_evidence" \in Range(handled)
     /\ \A i \in 1..Len(faults) :
           ~(faults[i].step = "retrieve_evidence" /\ faults[i].call \in TextCalls))
    => LET outs == StepOuts("retrieve_evidence") IN
       /\ Len(outs) = 1
       /\ gate.type = "gate"
       /\ outs[1].ev.type \in {"AnalysisEvent", "HumanReviewEvent"}
       /\ (outs[1].ev.type = "AnalysisEvent")
            <=> is_evidence_sufficient(gate.chunks, gate.threshold,
                                       calculate_coverage(gate.chunks, gate.images))
       /\ (Last(handled) = "retrieve_evidence" => queue = <<outs[1].ev>>)

\* C1 witness: retrieval ran without failure and escalated to human review
C1_Witness ==
    /\ handled = <<"orchestrate_query", "retrieve_evidence">>
    /\ faults = <<>>
    /\ Len(queue) = 1
    /\ queue[1].type = "HumanReviewEvent"
    /\ Len(queue[1].chunks) >= 2

LinearPaths ==
    {<<"orchestrate_query", "retrieve_evidence", "analyze_and_synthesize">>,
     <<"orchestrate_query", "retrieve_evidence", "analyze_and_synthesize",
       "handle_human_review">>,
     <<"orchestrate_query", "retrieve_evidence", "handle_human_review">>}

\* C2: the steps that ran form a prefix of Start -> Retrieval -> (Analysis |
\* HumanReview) -> Stop with HumanReview optionally after Analysis, no step
\* runs twice, and a request that produced a result retrieved exactly once.
C2_LinearNoRevisit ==
    /\ \E p \in LinearPaths : IsPrefix(handled, p)
    /\ \A i, j \in 1..Len(handled) : i # j => handled[i] # handled[j]
    /\ Cardinality({i \in 1..Len(handled) : handled[i] = "retrieve_evidence"}) <= 1
    /\ result # None =>
          /\ Cardinality({i \in 1..Len(handled) : handled[i] = "retrieve_evidence"}) = 1
          /\ Last(handled) \in {"analyze_and_synthesize", "handle_human_review"}
          /\ queue = <<>>

\* C2 witness: Analysis ended in low confidence and the request stopped after
\* HumanReview
C2_Witness ==
    /\ handled = <<"orchestrate_query", "retrieve_evidence", "analyze_and_synthesize",
                   "handle_human_review">>
    /\ result # None
    /\ synth.output.confidence < synth.threshold

\* C3: a result released by the Analysis step is one the OutputValidator
\* accepts: validate_and_enforce returns "valid" for it.
C3_StopOnlyIfValidated ==
    (result # None /\ Last(handled) = "analyze_and_synthesize")
    => validate_and_enforce(synth.output, synth.chunks).status = "valid"

\* C4: once handle_human_review ran the request has a result and no error; with
\* at least one chunk in the event the result is the non-refused limited-evidence
\* answer made of the first chunk's text, cites the first three chunks and has
\* confidence 0.4; with no chunk it is a refusal with no answer and the event's
\* reason as refusal reason.
C4_HumanReviewResolves ==
    (Len(handled) > 0 /\ Last(handled) = "handle_human_review")
    => /\ failed = None
       /\ queue = <<>>
       /\ result # None
       /\ Len(emitted) >= 2
       /\ Last(emitted).ev = [type |-> "StopEvent", result |-> result]
       /\ LET ev == emitted[Len(emitted) - 1].ev IN
          /\ ev.type = "HumanReviewEvent"
          /\ IF Len(ev.chunks) >= 1
             THEN /\ result.refused = FALSE
                  /\ result.confidence = Fixed(4, 10)
                  /\ result.answer.type = "limited"
                  /\ result.answer.body.src = ev.chunks[1].text.src
                  /\ result.answer.body.len = Min(ev.chunks[1].text.len, 500)
                  /\ Len(result.citations) = Min(3, Len(ev.chunks))
                  /\ \A i \in 1..Len(result.citations) :
                        result.citations[i].paper_title = ev.chunks[i].paper_title
             ELSE /\ result.refused = TRUE
                  /\ result.answer = None
                  /\ result.refusal_reason = ev.reason

\* C4 witness: a review event with a single chunk was resolved
C4_Witness ==
    /\ Len(handled) > 0
    /\ Last(handled) = "handle_human_review"
    /\ Len(emitted[Len(emitted) - 1].ev.chunks) = 1
    /\ result.refused = FALSE

\* C5: when a dense or sparse embedding call, a text index query or a completer
\* call failed, the run ended with that exception: there is no result, nothing
\* is queued, and no HumanReviewEvent and no StopEvent was emitted.
C5_HardFailureEndsRequest ==
    \A i \in 1..Len(faults) :
        faults[i].call \in HardCalls
        => /\ failed.type = "Exception"
           /\ failed.step = faults[i].step
           /\ failed.call = faults[i].call
           /\ result = None
           /\ queue = <<>>
           /\ \A j \in 1..Len(emitted) :
                 emitted[j].ev.type \notin {"HumanReviewEvent", "StopEvent"}

\* C5 witness: the sparse index query failed
C5_Witness ==
    /\ faults = <<[step |-> "retrieve_evidence", call |-> "sparse_query"]>>
    /\ failed.type = "Exception"

C8_ReasonStatesChunkCount ==
    \A i \in 1..Len(emitted) :
        (/\ emitted[i].by = "retrieve_evidence"
         /\ emitted[i].ev.type = "HumanReviewEvent"
         /\ Len(emitted[i].ev.chunks) < MIN_CHUNKS)
        => \E k \in 1..Len(emitted[i].ev.reason) :
              emitted[i].ev.reason[k].args = <<Len(emitted[i].ev.chunks), MIN_CHUNKS>>

SameEvidence(entry, chunk) ==
    /\ entry.paper_title = chunk.paper_title
    /\ entry.section_title = chunk.section_title
    /\ entry.page_start = chunk.page_start
    /\ entry.page_end = chunk.page_end
    /\ entry.text = chunk.text

\* C9: every excerpt of the synthesizer's prompt and every citation it extracts
\* comes from a chunk of the list the sufficiency check accepted in this request.
C9_SynthesizerUsesGateChunks ==
    synth.type = "synth"
    => /\ gate.type = "gate"
       /\ ClaimedSufficient(gate)
       /\ \A i \in 1..Len(synth.prompt.context) :
             \E j \in 1..Len(gate.chunks) :
                SameEvidence(synth.prompt.context[i], gate.chunks[j])
       /\ synth.completed =>
             \A i \in 1..Len(synth.output.citations) :
                \E j \in 1..Len(gate.chunks) :
                   /\ synth.output.citations[i].paper_title = gate.chunks[j].paper_title
                   /\ synth.output.citations[i].pages
                        = <<gate.chunks[j].page_start, gate.chunks[j].page_end>>

\* C9 witness: the synthesizer ran on chunks of two papers and cited both
C9_Witness ==
    /\ synth.type = "synth"
    /\ synth.completed
    /\ Len(synth.prompt.context) >= 2
    /\ Len(synth.output.citations) >= 2

C11_EscalationCarriesStage ==
    (Len(handled) > 0 /\ Last(handled) = "handle_human_review")
    => LET esc == emitted[Len(emitted) - 1] IN
       /\ Has(result, "stage")
       /\ result.stage = (IF esc.by = "retrieve_evidence" THEN "retrieval" ELSE "guardrails")
       /\ Has(result, "suggested_actions")
       /\ result.suggested_actions = esc.ev.suggested_actions
       /\ Has(result, "chunks")
       /\ result.chunks = esc.ev.chunks

\* C12: a request's result depends on its own inputs and the corpus only: two
\* requests the engine answered with the same question, top_k, response mode
\* and search mode returned the same sources, whatever was answered before.
C12_RequestsIndependent ==
    \A i, j \in 1..Len(served) :
        served[i].request = served[j].request
        => /\ served[i].response.sources = served[j].response.sources
           /\ served[i].response.num_sources = served[j].response.num_sources

\* C13: for a string query classify returns the matched intent of highest
\* priority with confidence 1.0 and that intent's sections; with no match it
\* returns general with confidence 0.5 and the sections Abstract, Introduction,
\* Methods, Results; a query matching exactly limitations and summary resolves
\* to limitations.
C13_ClassifyHighestPriority ==
    (applied.type = "call" /\ applied.fn = "classify" /\ applied.query.type = "str")
    => LET matched == matched_intents(str_lower(applied.query.value)) IN
       /\ returned.type = "IntentResult"
       /\ IF matched = {}
          THEN /\ returned.intent = "general"
               /\ returned.confidence = Fixed(5, 10)
               /\ Range(returned.allowed_sections)
                    = {"Abstract", "Introduction", "Methods", "Results"}
          ELSE /\ returned.intent \in matched
               /\ \A m \in matched :
                     INTENT_PRIORITY[m] <= INTENT_PRIORITY[returned.intent]
               /\ returned.confidence = Fixed(1, 1)
               /\ returned.allowed_sections = INTENT_SECTION_MAP[returned.intent]
       /\ (matched = {"limitations", "summary"} => returned.intent = "limitations")

\* C13 witness: a query with a limitations keyword and a summary keyword
C13_Witness ==
    /\ applied.type = "call"
    /\ applied.fn = "classify"
    /\ applied.query = Str("Summarize limitations")
    /\ returned.intent = "limitations"

\* C14: once the Start step ran it has emitted one RetrievalEvent, and that
\* event is fixed by the question alone: it is the event the orchestrator
\* builds whatever the completer answers.
C14_RetrievalEventFromQuestionAlone ==
    "orchestrate_query" \in Range(handled)
    => LET outs == StepOuts("orchestrate_query") IN
       /\ Len(outs) = 1
       /\ outs[1].ev.type = "RetrievalEvent"
       /\ \A response \in LLMClassifications :
             outs[1].ev = orchestrator_process([type |-> "StartEvent",
                                                question |-> outs[1].ev.original_question],
                                               response)

\* C15: classify returns an IntentResult for every query, and for the empty
\* string and for None it returns the intent general.
C15_ClassifyAlwaysReturns ==
    (applied.type = "call" /\ applied.fn = "classify")
    => /\ returned.type = "IntentResult"
       /\ (applied.query = None \/ applied.query = Str(""))
            => returned.intent = "general"

\* C16: for every intent and every allowed-section list, the filter
\* search_with_filter applies to the text index queries admits only labels of
\* the list, never Unknown, and References only when the intent is citation.
C16_FilterAdmitsOnlyAllowed ==
    (applied.type = "call" /\ applied.fn = "search_with_filter")
    => /\ returned.admitted \subseteq Range(applied.allowed_sections)
       /\ "Unknown" \notin returned.admitted
       /\ ("References" \in returned.admitted => applied.intent = "citation")

\* C17: with the configured constant k and weights, a point's fused score does
\* not decrease when its rank in the dense list, or in the sparse list, becomes
\* better while the other list is the same.
C17_RrfMonotone ==
    (applied.type = "call" /\ applied.fn = "rrf_score")
    => LET id == applied.id
           dense == applied.dense_results
           sparse == applied.sparse_results
       IN  /\ \A better \in RankedLists :
                 (/\ id \in Ids(dense) /\ id \in Ids(better)
                  /\ RankIn(better, id) < RankIn(dense, id))
                 => rrf_score(better, sparse, id) >= returned.score
           /\ \A better \in RankedLists :
                 (/\ id \in Ids(sparse) /\ id \in Ids(better)
                  /\ RankIn(better, id) < RankIn(sparse, id))
                 => rrf_score(dense, better, id) >= returned.score

\* C17 witness: a point ranked last in the dense list and present in the sparse
\* list, so that a better dense rank exists
C17_Witness ==
    /\ applied.type = "call"
    /\ applied.fn = "rrf_score"
    /\ applied.id \in Ids(applied.dense_results)
    /\ applied.id \in Ids(applied.sparse_results)
    /\ RankIn(applied.dense_results, applied.id) = MaxRank
    /\ returned.score
         = dense_weight \div (rrf_k + MaxRank)
           + sparse_weight \div (rrf_k + RankIn(applied.sparse_results, applied.id))

\* C18: _extract_citations returns one citation per distinct (paper title,
\* starting page) pair of the chunks it is given, in the order the pairs first
\* occur; the list is empty only for an empty chunk list, and every cited
\* title is the title of a chunk.
C18_CitationsDeduplicated ==
    (applied.type = "call" /\ applied.fn = "extract_citations")
    => LET chunks == applied.chunks
           citations == returned.citations
           key(i) == <<chunks[i].paper_title, chunks[i].page_start>>
           first == {i \in 1..Len(chunks) : \A j \in 1..(i - 1) : key(j) # key(i)}
           nth(k) == CHOOSE i \in first : Cardinality({j \in first : j < i}) = k - 1
       IN  /\ Len(citations) = Cardinality({key(i) : i \in 1..Len(chunks)})
           /\ \A k \in 1..Len(citations) :
                 /\ citations[k].paper_title = chunks[nth(k)].paper_title
                 /\ citations[k].pages[1] = chunks[nth(k)].page_start
                 /\ citations[k].pages[2] = chunks[nth(k)].page_end
                 /\ citations[k].section = chunks[nth(k)].section_title
           /\ \A k, l \in 1..Len(citations) :
                 k # l => <<citations[k].paper_title, citations[k].pages[1]>>
                            # <<citations[l].paper_title, citations[l].pages[1]>>
           /\ (citations = <<>>) <=> (chunks = <<>>)
           /\ {citations[k].paper_title : k \in 1..Len(citations)}
                \subseteq {chunks[i].paper_title : i \in 1..Len(chunks)}

\* C18 witness: three chunks, the first two of the same paper and starting
\* page but of different sections, yield two citations
C18_Witness ==
    /\ applied.type = "call"
    /\ applied.fn = "extract_citations"
    /\ Len(applied.chunks) = 3
    /\ applied.chunks[1].paper_title = applied.chunks[2].paper_title
    /\ applied.chunks[1].page_start = applied.chunks[2].page_start
    /\ applied.chunks[1].section_title # applied.chunks[2].section_title
    /\ applied.chunks[3].paper_title # applied.chunks[1].paper_title
    /\ Len(returned.citations) = 2

C20_FinalGate ==
    (/\ applied.type = "call" /\ applied.fn = "validate_and_enforce"
     /\ validate_schema(applied.llm_output).valid)
    => LET out == applied.llm_output
           chunks == applied.retrieved_chunks
           titles == {str_lower(chunks[i].paper_title) : i \in 1..Len(chunks)}
           unmatched == {i \in 1..Len(out.citations) :
                           /\ titles # {}
                           /\ \A t \in titles :
                                 /\ ~Contains(str_lower(out.citations[i].paper_title), t)
                                 /\ ~Contains(t, str_lower(out.citations[i].paper_title))}
           citation_penalty == Min(Cardinality(unmatched) * Fixed(15, 100), Fixed(5, 10))
           hallucination_penalty ==
               IF /\ out.answer.phrases \cap HonestPatterns = {}
                  /\ out.answer.len > 2000
                  /\ Len(chunks) < 3
               THEN Fixed(1, 10) ELSE 0
           final == out.confidence - citation_penalty - hallucination_penalty
       IN  /\ (returned.status = "valid") <=> (final >= Fixed(5, 10))
           /\ returned.status = "valid"
                => (returned.confidence = final /\ returned.confidence >= Fixed(5, 10))
           /\ returned.status # "valid"
                => /\ returned.status = "human_review_required"
                   /\ returned.reason \in {"Citation grounding failed - low confidence",
                                           "Low confidence after validation: {:.2f}"}

\* C20 witness: a long answer from fewer than three chunks costs 0.1 and the
\* result is still valid, with the confidence lowered from 0.6 to exactly 0.5
C20_Witness ==
    /\ applied.type = "call"
    /\ applied.fn = "validate_and_enforce"
    /\ applied.llm_output.confidence = Fixed(6, 10)
    /\ applied.llm_output.answer.len > 2000
    /\ Len(applied.retrieved_chunks) < 3
    /\ returned.status = "valid"
    /\ returned.confidence = Fixed(5, 10)

\* C21: an output whose answer contains an honest-refusal phrase and whose
\* confidence is the one the synthesizer estimates for that answer is returned
\* as valid by the validator, with no hallucination penalty, whatever the
\* answer's length and the number of chunks.
C21_HonestRefusalValid ==
    (/\ applied.type = "call" /\ applied.fn = "validate_and_enforce"
     /\ applied.llm_output.answer.phrases \cap HonestPatterns # {}
     /\ applied.llm_output.confidence
          = estimate_confidence(applied.llm_output.answer, applied.retrieved_chunks)
     /\ validate_schema(applied.llm_output).valid)
    => /\ check_hallucinations(applied.llm_output.answer,
                               applied.retrieved_chunks).penalty = 0
       /\ returned.status = "valid"

\* C22: the fusion returns candidates of the union of the dense and the sparse
\* list, each at most once, carrying its fused score, ordered by that score
\* descending; the result has min(top_k, number of distinct candidates)
\* entries, and no candidate left out has a higher fused score than a returned
\* one.
C22_FusionTopK ==
    (applied.type = "call" /\ applied.fn = "rrf_fusion")
    => LET dense == applied.dense_results
           sparse == applied.sparse_results
           candidates == Ids(dense) \cup Ids(sparse)
           part(list, weight, id) ==
               IF id \in Ids(list) THEN weight \div (rrf_k + RankIn(list, id)) ELSE 0
           fused(id) == part(dense, dense_weight, id) + part(sparse, sparse_weight, id)
           points == returned.points
       IN  /\ Ids(points) \subseteq candidates
           /\ \A i, j \in 1..Len(points) : i # j => points[i].id # points[j].id
           /\ Len(points) = Min(applied.limit, Cardinality(candidates))
           /\ \A i \in 1..Len(points) : points[i].score = fused(points[i].id)
           /\ \A i \in 1..(Len(points) - 1) : points[i].score >= points[i + 1].score
           /\ \A id \in candidates \ Ids(points) :
                 \A i \in 1..Len(points) : points[i].score >= fused(id)

\* C22 witness: three distinct candidates, one of them in both lists, are cut
\* to the best two; the candidate of both lists comes first
C22_Witness ==
    /\ applied.type = "call"
    /\ applied.fn = "rrf_fusion"
    /\ applied.limit = 2
    /\ Cardinality(Ids(applied.dense_results) \cup Ids(applied.sparse_results)) = 3
    /\ Ids(applied.dense_results) \cap Ids(applied.sparse_results) # {}
    /\ Len(returned.points) = 2
    /\ returned.points[1].id \in Ids(applied.dense_results) \cap Ids(applied.sparse_results)
    /\ applied.order[1] \notin Ids(returned.points)

C24_ConfidenceCascade ==
    (applied.type = "call" /\ applied.fn = "estimate_confidence")
    => LET answer == applied.answer
           chunks == applied.chunks
           uncertain == answer.phrases
                          \cap {"not found", "unclear", "uncertain", "cannot determine"} # {}
           short == answer.len < 200
           cites == \E i \in 1..Len(chunks) :
                       i <= 3 /\ chunks[i].paper_title \in answer.titles
           c == returned.confidence
       IN  /\ c \in {Fixed(3, 10), Fixed(6, 10), Fixed(85, 100), Fixed(7, 10)}
           /\ (c = Fixed(3, 10)) <=> uncertain
           /\ (c = Fixed(6, 10)) <=> (~uncertain /\ short)
           /\ (c = Fixed(85, 100)) <=> (~uncertain /\ ~short /\ cites)
           /\ (c = Fixed(7, 10)) <=> (~uncertain /\ ~short /\ ~cites)

\* C24 witness: a long answer that cites the first chunk's title and says
\* "not found" is scored 0.3
C24_Witness ==
    /\ applied.type = "call"
    /\ applied.fn = "estimate_confidence"
    /\ "not found" \in applied.answer.phrases
    /\ applied.answer.len >= 200
    /\ Len(applied.chunks) >= 1
    /\ applied.chunks[1].paper_title \in applied.answer.titles
    /\ returned.confidence = Fixed(3, 10)

\* C25 as claimed: the grounding penalty is min(0.15 x unmatched, 0.5), where a
\* citation is unmatched when its title matches no title of the supplied
\* chunks (lower-cased, substring in either direction).
C25_EveryUnmatchedCitationPenalised ==
    (applied.type = "call" /\ applied.fn = "validate_citation_grounding")
    => LET titles == {str_lower(applied.chunks[i].paper_title) :
                         i \in 1..Len(applied.chunks)}
           unmatched == {i \in 1..Len(applied.citations) :
                           \A t \in titles :
                              /\ ~Contains(str_lower(applied.citations[i].paper_title), t)
                              /\ ~Contains(t, str_lower(applied.citations[i].paper_title))}
       IN  returned.result.confidence_penalty
             = Min(Cardinality(unmatched) * Fixed(15, 100), Fixed(5, 10))

\* C25 amended: when at least one chunk is supplied the grounding penalty is
\* min(0.15 x unmatched, 0.5) and grounding is valid exactly when no citation
\* is unmatched; with no chunk nothing is penalised; an empty citation list
\* costs 0.4.  In validate_and_enforce unmatched citations only lower the
\* confidence: the output is escalated for grounding only when the lowered
\* confidence is below 0.5, and an output of confidence 1.0 with no
\* hallucination penalty stays valid however many citations are unmatched.
C25_UnmatchedCitationsLowerConfidence ==
    /\ (applied.type = "call" /\ applied.fn = "validate_citation_grounding")
       => LET titles == {str_lower(applied.chunks[i].paper_title) :
                            i \in 1..Len(applied.chunks)}
              unmatched == {i \in 1..Len(applied.citations) :
                              \A t \in titles :
                                 /\ ~Contains(str_lower(applied.citations[i].paper_title), t)
                                 /\ ~Contains(t, str_lower(applied.citations[i].paper_title))}
              penalty == IF applied.citations = <<>> THEN Fixed(4, 10)
                         ELSE IF applied.chunks = <<>> THEN 0
                         ELSE Min(Cardinality(unmatched) * Fixed(15, 100), Fixed(5, 10))
          IN  /\ returned.result.confidence_penalty = penalty
              /\ returned.result.valid <=> penalty = 0
              /\ Len(returned.result.issues)
                   = (IF applied.citations = <<>> THEN 1
                      ELSE IF applied.chunks = <<>> THEN 0 ELSE Cardinality(unmatched))
    /\ (/\ applied.type = "call" /\ applied.fn = "validate_and_enforce"
        /\ validate_schema(applied.llm_output).valid)
       => LET out == applied.llm_output
              grounding == validate_citation_grounding(out.citations,
                                                       applied.retrieved_chunks)
              lowered == out.confidence - grounding.confidence_penalty
          IN  /\ (/\ returned.status = "human_review_required"
                  /\ returned.reason = "Citation grounding failed - low confidence")
                 <=> (~grounding.valid /\ lowered < Fixed(5, 10))
              /\ (/\ out.confidence = Fixed(1, 1)
                  /\ ~(out.answer.len > 2000 /\ Len(applied.retrieved_chunks) < 3))
                 => (returned.status = "valid" /\ returned.confidence = lowered)

\* C25 witness: four citations of a paper that is not among the chunks reach
\* the cap of 0.5
C25_Witness ==
    /\ applied.type = "call"
    /\ applied.fn = "validate_citation_grounding"
    /\ Len(applied.citations) = 4
    /\ applied.chunks # <<>>
    /\ \A i \in 1..4 : applied.citations[i].paper_title = "PAPER B (v2)"
    /\ \A i \in 1..Len(applied.chunks) : applied.chunks[i].paper_title = "Paper A"
    /\ Len(returned.result.issues) = 4
    /\ returned.result.confidence_penalty = Fixed(5, 10)

\* C26: with hybrid search enabled every chunk handed to the sufficiency check
\* scores at most (dense_weight + sparse_weight) / (rrf_k + 1), which is below
\* the thresholds 0.4 and 0.5; the check fails, the retrieval step emits a
\* HumanReviewEvent and the Analysis step never runs.
C26_HybridNeverProceeds ==
    (gate.type = "gate" /\ settings.enable_hybrid_search)
    => LET bound == (dense_weight + sparse_weight) \div (rrf_k + 1) IN
       /\ bound < Fixed(4, 10)
       /\ gate.threshold \in {Fixed(4, 10), Fixed(5, 10)}
       /\ \A i \in 1..Len(gate.chunks) : gate.chunks[i].score <= bound
       /\ StepOuts("retrieve_evidence")[1].ev.type = "HumanReviewEvent"
       /\ \A i \in 1..Len(emitted) : emitted[i].ev.type # "AnalysisEvent"
       /\ "analyze_and_synthesize" \notin Range(handled)
       /\ synth = None

\* C26 witness: a hybrid retrieval returned two chunks, the first ranked first
\* in both lists, and escalated
C26_Witness ==
    /\ gate.type = "gate"
    /\ settings.enable_hybrid_search
    /\ Len(gate.chunks) = 2
    /\ gate.chunks[1].score = dense_weight \div (rrf_k + 1) + sparse_weight \div (rrf_k + 1)
    /\ Len(queue) = 1
    /\ queue[1].type = "HumanReviewEvent"

\* C27: a request's result is a refusal (refused, no answer, confidence 0.0)
\* exactly when text retrieval returned no chunk; a review event raised by the
\* Analysis step carries the non-empty chunk list the step analysed, and the
\* request then ends with the limited-evidence answer, not with a refusal.
C27_RefusalIffNoChunks ==
    /\ result # None
       => /\ gate.type = "gate"
          /\ result.refused <=> (gate.chunks = <<>>)
          /\ result.refused => (result.answer = None /\ result.confidence = 0)
          /\ (result.answer = None \/ result.confidence = 0) => result.refused
    /\ \A i \in 1..Len(emitted) :
          (emitted[i].by = "analyze_and_synthesize"
             /\ emitted[i].ev.type = "HumanReviewEvent")
          => /\ emitted[i].ev.chunks # <<>>
             /\ emitted[i].ev.chunks = emitted[i - 1].ev.chunks
             /\ emitted[i - 1].ev.type = "AnalysisEvent"
             /\ result # None
                  => /\ result.refused = FALSE
                     /\ result.answer.type = "limited"
                     /\ result.answer.body.src = emitted[i].ev.chunks[1].text.src

\* C27 witness: text retrieval returned nothing and the request was refused
C27_Witness ==
    /\ result # None
    /\ gate.type = "gate"
    /\ gate.chunks = <<>>
    /\ result.refused = TRUE
    /\ result.answer = None
    /\ Last(handled) = "handle_human_review"

\* C28: the confidence of a request's result is 0.0 (refusal), 0.4 (resolved
\* by human review) or 0.6, 0.7, 0.85 (released by the Analysis step).  An
\* answer the synthesizer scored 0.3 is never released: the Analysis step
\* escalates it, and the result is the raw text of the first chunk with
\* confidence 0.4.
C28_FinalConfidenceValues ==
    /\ result # None
       => /\ result.confidence
               \in {0, Fixed(4, 10), Fixed(6, 10), Fixed(7, 10), Fixed(85, 100)}
          /\ (result.confidence = 0) <=> result.refused
          /\ (result.confidence = Fixed(4, 10))
               <=> (Last(handled) = "handle_human_review" /\ ~result.refused)
          /\ (result.confidence \in {Fixed(6, 10), Fixed(7, 10), Fixed(85, 100)})
               <=> Last(handled) = "analyze_and_synthesize"
          /\ Last(handled) = "analyze_and_synthesize"
               => result.confidence = synth.output.confidence
    /\ (synth.type = "synth" /\ synth.completed
          /\ synth.output.confidence = Fixed(3, 10))
       => /\ Fixed(3, 10) < synth.threshold
          /\ Last(StepOuts("analyze_and_synthesize")).ev.type = "HumanReviewEvent"
          /\ result # None
               => /\ Last(handled) = "handle_human_review"
                  /\ result.confidence = Fixed(4, 10)
                  /\ result.answer.type = "limited"
                  /\ result.answer.body = Prefix(synth.chunks[1].text, 500)
                  /\ result.answer # synth.output.answer

\* C28 witness: the synthesizer scored its answer 0.3 and the request ended
\* with the limited-evidence answer of confidence 0.4
C28_Witness ==
    /\ synth.type = "synth"
    /\ synth.completed
    /\ synth.output.confidence = Fixed(3, 10)
    /\ synth.threshold = Fixed(4, 10)
    /\ result # None
    /\ result.confidence = Fixed(4, 10)
    /\ result.answer.type = "limited"

\* the number of messages of the given role among the first n of a list
CountRole(messages, role, n) ==
    Cardinality({k \in 1..n : messages[k] = role})

C30_StatusTrackedFromUpload ==
    /\ \A f \in Filenames :
          /\ \A k \in 1..Len(status_log[f]) :
                IF k = 1 THEN status_log[f][k] = "processing"
                ELSE /\ status_log[f][k - 1] = "processing"
                     /\ status_log[f][k] \in {"completed", "failed"}
          /\ (processing_status[f] # None /\ processing_status[f].status = "failed")
                => processing_status[f].chunks_created = 0
          /\ (/\ (\E i \in 1..Len(tasks) : tasks[i].filename = f)
               /\ (\A i \in 1..Len(tasks) :
                      tasks[i].filename = f => tasks[i].pc = "returned"))
                => processing_status[f].status \in {"completed", "failed"}
    /\ \A j, k \in 1..Len(answers) :
          (/\ j < k
           /\ answers[j].route = "upload" /\ answers[j].status = "processing"
           /\ answers[k].route = "status" /\ answers[k].filename = answers[j].filename)
          => answers[k].status # "not_found"

====
